---------------------------- MODULE Spec2Model ----------------------------
(***************************************************************************)
(* A model of the unsplash-stats collection pipeline:                      *)
(*   - the dashboard's collect trigger, its background worker and the      *)
(*     lock-guarded collection state (unsplash_stats/dashboard.py),        *)
(*   - the snapshot transaction of collect_snapshot over the SQLite store  *)
(*     (unsplash_stats/collector.py, unsplash_stats/db.py),                *)
(*   - the rate-aware request loop of UnsplashClient (unsplash_stats/      *)
(*     api.py),                                                            *)
(*   - the pagination of UnsplashClient.iter_user_photos.                  *)
(* Each part has its own specification over its own variables; the other   *)
(* variables are parked at their initial value.                            *)
(* Times are whole seconds; None is modelled by the value None below.      *)
(***************************************************************************)
EXTENDS Integers, Sequences, FiniteSets, TLC

None == "None"

Min(a, b) == IF a <= b THEN a ELSE b
Max(a, b) == IF a >= b THEN a ELSE b

(***************************************************************************)
(* Part 1: dashboard trigger, worker slot and shared collection state.     *)
(***************************************************************************)

\* Bounds of the dashboard model.
MaxWorkers == 2     \* thread objects that may exist at the same time
MaxCalls == 1       \* requests one collection reports through the hook
MaxRuns == 2        \* runs committed in one behaviour

\* The request-handler threads of the server that run callbacks concurrently:
\* two are what it takes to interleave one trigger with another.
Handlers == {1, 2}
\* The estimates collect_snapshot may report: none (0), or 2 + photo pages.
Estimates == {0} \cup (2..(MaxCalls + 2))
Workers == 1..MaxWorkers

VARIABLES
    hpc,              \* handler -> position inside update_collection_progress/_start_collection
    hres,             \* handler -> message returned by its last _start_collection
    hworker,          \* handler -> the Thread object it created (0: none)
    worker_ref,       \* worker_ref["thread"]: a worker id, or 0 for None
    wpc,              \* worker thread -> position inside _run_collection_worker
    wcalls,           \* worker -> api_calls_made of its collect_snapshot
    wexpected,        \* worker -> expected_total_api_calls (0: None)
    wrun,             \* worker -> result.run_id of its collect_snapshot (0: no result)
    collection_state, \* the shared dict guarded by state_lock
    env_access_key,   \* whether UNSPLASH_ACCESS_KEY is set in the process environment
    db_run_count      \* runs committed to the store by dashboard workers

dashVars == <<hpc, hres, hworker, worker_ref, wpc, wcalls, wexpected, wrun,
              collection_state, env_access_key, db_run_count>>

VARIABLES
    cpc,            \* collector -> position inside collect_snapshot
    crows,          \* collector -> photo_rows, the photo ids of the rows it assembled
    crun,           \* collector -> run_id returned by insert_collection_run (0: none yet)
    db_runs,        \* committed rows of collection_runs
    db_user_rows,   \* committed rows of user_stats_snapshots
    db_photo_rows,  \* committed rows of photo_stats_snapshots
    db_seq,         \* committed AUTOINCREMENT sequence of collection_runs
    db_writer,      \* the connection holding SQLite's write lock (0: none)
    tx_runs,        \* rows of the open write transaction, not yet committed
    tx_user_rows,
    tx_photo_rows

storeVars == <<cpc, crows, crun, db_runs, db_user_rows, db_photo_rows, db_seq,
               db_writer, tx_runs, tx_user_rows, tx_photo_rows>>

VARIABLES
    cfg_min_interval,     \* min_request_interval_seconds as passed to the client
    cfg_max_sleep,        \* rate_limit_retry_max_sleep_seconds as passed
    min_request_interval_seconds,          \* the client's fields set by __init__
    rate_limit_retry_max_sleep_seconds,
    rate_limit,           \* recorded X-Ratelimit-Limit (<<>>: None)
    rate_limit_remaining, \* recorded X-Ratelimit-Remaining (<<>>: None)
    rpc,                  \* position inside _request
    rreq,                 \* the path (with its parameters) _request was called with
    rsent,                \* the request most recently handed to urlopen
    rate_limit_hits,      \* the local counter of _request
    resp,                 \* the response being handled (NoResponse: none)
    rhdrs,                \* the Retry-After and reset headers read for the wait
    rwait,                \* wait_seconds of the current sleep (0: not sleeping)
    routcome              \* what _request returned or raised (None: nothing yet)

clientVars == <<cfg_min_interval, cfg_max_sleep, min_request_interval_seconds,
                rate_limit_retry_max_sleep_seconds, rate_limit, rate_limit_remaining,
                rpc, rreq, rsent, rate_limit_hits, resp, rhdrs, rwait, routcome>>

VARIABLES
    per_page_arg,   \* per_page as passed to iter_user_photos
    per_page,       \* the locals of iter_user_photos
    max_pages,      \* (<<>>: None)
    max_items,      \* (<<>>: None)
    page,
    emitted,
    photos,         \* the page most recently returned by _request
    pidx,           \* position of the for loop inside photos
    ppc,            \* position of the generator
    prequests,      \* number of page requests made so far
    pyielded        \* number of photos handed to the consumer so far

pagerVars == <<per_page_arg, per_page, max_pages, max_items, page, emitted, photos,
               pidx, ppc, prequests, pyielded>>

VARIABLES
    clock,                       \* time.monotonic(), in whole seconds
    last_request_at_monotonic,   \* the client's field _last_request_at_monotonic (<<>>: None)
    tpc,                         \* position of the client between and inside requests
    prev_ended_at,               \* when the previous request ended, whatever its outcome (<<>>: none yet)
    prev_response_at,            \* when an HTTP response was last received (<<>>: none yet)
    prev_outcome                 \* how the previous request ended

paceVars == <<clock, last_request_at_monotonic, tpc, prev_ended_at, prev_response_at,
              prev_outcome>>

VARIABLES
    strict,                     \* the arguments of collect_snapshot
    arg_max_photos,             \* max_photos (<<>>: None)
    arg_max_pages,              \* max_pages (<<>>: None)
    rate_limit_fraction,        \* in percent
    kpc,                        \* position inside collect_snapshot
    photos_seen,                \* the locals of collect_snapshot
    photo_errors,
    photo_rows,                 \* the photo ids of the rows assembled, in order
    api_calls_made,
    expected_total_api_calls,   \* (<<>>: None)
    progress,                   \* the latest dict handed to progress_hook
    request_count,              \* the client's running count of performed requests
    reports,                    \* the events handed to the request observer, in order
    performed,                  \* the requests performed, in order
    account_total_photos,       \* total_photos of the successful account fetch (<<>>: not known)
    pending,                    \* photos of the current page not yet consumed
    pages_loaded,               \* listing pages received
    listing_over,               \* the listing has no further page
    missing_ids,                \* the photos seen without statistics
    failed_at,                  \* the step whose request failed ("none": no failure)
    kresult                     \* the CollectionResult returned

collectVars == <<strict, arg_max_photos, arg_max_pages, rate_limit_fraction, kpc,
                 photos_seen, photo_errors, photo_rows, api_calls_made,
                 expected_total_api_calls, progress, request_count, reports, performed,
                 account_total_photos, pending, pages_loaded, listing_over, missing_ids,
                 failed_at, kresult>>

VARIABLES
    snap_runs,      \* collection_runs as the queries read it: id and collected_at
    snap_rows,      \* photo_stats_snapshots: id, run_id, photo_id and the two totals
    latest_view     \* the rows the latest-vs-previous query returned last

viewVars == <<snap_runs, snap_rows, latest_view>>

VARIABLES
    db_schema,      \* the tables and indexes that exist in the store file
    init_db_calls,  \* calls of init_db that have returned or raised
    init_db_raised  \* whether some call of init_db raised

schemaVars == <<db_schema, init_db_calls, init_db_raised>>

VARIABLES
    state_lock,       \* the thread holding state_lock (0: free)
    update_left,      \* the items collection_state.update(...) has still to write
    between_updates,  \* collection_state as it stood when state_lock was last released
    cbpc,             \* callback thread -> position inside update_collection_progress
    triggered_id,     \* callback thread -> ctx.triggered_id of its invocation
    current_refresh_token, \* callback thread -> the State value of its invocation
    action_status,    \* callback thread -> what _start_collection returned (None: not called)
    returned_state,   \* callback thread -> the dict _snapshot_collection_state returned
    outputs,          \* callback thread -> the outputs of its last completed invocation
    worker_thread,    \* the collection worker's Thread object: none, created, alive, ended
    worker_step,      \* the worker's position inside _run_collection_worker
    worker_calls,     \* requests the worker's collect_snapshot has reported
    collections       \* Thread objects created so far

callbackVars == <<state_lock, update_left, between_updates, cbpc, triggered_id,
                  current_refresh_token, action_status, returned_state, outputs,
                  worker_thread, worker_step, worker_calls, collections>>

\* The variables of parts 5 and later.
laterVars == <<paceVars, collectVars, viewVars, schemaVars, callbackVars>>

vars == <<dashVars, storeVars, clientVars, pagerVars, laterVars>>

\* The variables of the other parts, which the dashboard's actions leave alone.
dashFrame == <<storeVars, clientVars, pagerVars, laterVars>>

\* threading.Thread.is_alive(): true from start() until the thread has ended.
IsAlive(w) ==
    wpc[w] \in {"started", "collecting", "exporting", "finally", "finally_after_except",
                "nokey_clear"}

\* A worker thread that is inside _run_collection_worker.
Executing(w) == IsAlive(w)

\* A thread object nobody references any more can be collected and its id reused.
Unreferenced(w) ==
    /\ wpc[w] \in {"none", "terminated"}
    /\ worker_ref # w
    /\ \A t \in Handlers : hworker[t] # w

\* Collections accepted whose collect_snapshot has not ended yet.
Pending == {w \in Workers : wpc[w] \in {"created", "started", "collecting"}}

\* percent = min(100, calls / expected * 100), in whole percent.
Percent(calls, expected) == Min(100, (calls * 100) \div expected)

InitialState ==
    [phase |-> "idle", message |-> "Ready.", completed_calls |-> 0,
     expected_total_calls |-> 0, percent_complete |-> 0, refresh_token |-> 0]

InitDash ==
    /\ hpc = [t \in Handlers |-> "idle"]
    /\ hres = [t \in Handlers |-> None]
    /\ hworker = [t \in Handlers |-> 0]
    /\ worker_ref = 0
    /\ wpc = [w \in Workers |-> "none"]
    /\ wcalls = [w \in Workers |-> 0]
    /\ wexpected = [w \in Workers |-> 0]
    /\ wrun = [w \in Workers |-> 0]
    /\ collection_state = InitialState
    /\ env_access_key \in BOOLEAN
    /\ db_run_count = 0

\* The guard of _start_collection: the slot holds a thread that is alive.
SlotBusy == worker_ref # 0 /\ IsAlive(worker_ref)

\* The fields _start_collection resets when it accepts a trigger.
StartedState(st) ==
    [st EXCEPT !.phase = "running", !.message = "Collection started.",
               !.completed_calls = 0, !.expected_total_calls = 0,
               !.percent_complete = 0]

\* _start_collection, called by update_collection_progress for a click on the
\* collect button; the block under state_lock: the guard, the state reset and the
\* creation of the Thread object that is stored in the slot.  A refused trigger
\* returns at once.
StartCollectionLocked(t) ==
    /\ hpc[t] = "idle"
    /\ IF SlotBusy
       THEN /\ hres' = [hres EXCEPT ![t] = "Collection is already running."]
            /\ UNCHANGED <<hpc, hworker, worker_ref, wpc, wcalls, wexpected, wrun,
                           collection_state>>
       ELSE /\ db_run_count + Cardinality(Pending) < MaxRuns
            /\ \E w \in Workers :
                 /\ Unreferenced(w)
                 /\ \A v \in Workers : Unreferenced(v) => w <= v
                 /\ wpc' = [wpc EXCEPT ![w] = "created"]
                 /\ worker_ref' = w
                 /\ hworker' = [hworker EXCEPT ![t] = w]
                 /\ wrun' = [wrun EXCEPT ![w] = 0]
            /\ collection_state' = StartedState(collection_state)
            /\ hpc' = [hpc EXCEPT ![t] = "start"]
            /\ hres' = [hres EXCEPT ![t] = None]
            /\ UNCHANGED <<wcalls, wexpected>>
    /\ UNCHANGED <<env_access_key, db_run_count>>
    /\ UNCHANGED dashFrame

\* worker.start(), after state_lock was released; _start_collection returns and
\* the handler's reference to the Thread object is dropped.
WorkerStart(t) ==
    /\ hpc[t] = "start"
    /\ wpc' = [wpc EXCEPT ![hworker[t]] = "started"]
    /\ hres' = [hres EXCEPT ![t] = "Collection started."]
    /\ hpc' = [hpc EXCEPT ![t] = "idle"]
    /\ hworker' = [hworker EXCEPT ![t] = 0]
    /\ UNCHANGED <<worker_ref, wcalls, wexpected, collection_state,
                   wrun, env_access_key, db_run_count>>
    /\ UNCHANGED dashFrame

\* _run_collection_worker, the access-key check; without a key the state is set
\* to error under the lock.
WorkerCheckKey(w) ==
    /\ wpc[w] = "started"
    /\ IF env_access_key
       THEN /\ wpc' = [wpc EXCEPT ![w] = "collecting"]
            /\ UNCHANGED collection_state
       ELSE /\ wpc' = [wpc EXCEPT ![w] = "nokey_clear"]
            /\ collection_state' =
                 [collection_state EXCEPT
                    !.phase = "error", !.message = "Collection failed: no key."]
    /\ UNCHANGED <<hpc, hres, hworker, worker_ref, wcalls, wexpected,
                   wrun, env_access_key, db_run_count>>
    /\ UNCHANGED dashFrame

\* _progress_hook, called by collect_snapshot after a request of the client.
ProgressHook(w) ==
    /\ wpc[w] = "collecting"
    /\ wcalls[w] < MaxCalls
    /\ \E est \in Estimates :
         LET calls == wcalls[w] + 1
             expected == IF wexpected[w] = 0 THEN est ELSE wexpected[w]
             percent == IF expected > 0 THEN Percent(calls, expected) ELSE 0
         IN /\ wcalls' = [wcalls EXCEPT ![w] = calls]
            /\ wexpected' = [wexpected EXCEPT ![w] = expected]
            /\ collection_state' =
                 [collection_state EXCEPT
                    !.phase = "running",
                    !.message = "Collecting data.",
                    !.completed_calls = calls,
                    !.expected_total_calls = expected,
                    !.percent_complete = percent]
    /\ UNCHANGED <<hpc, hres, hworker, worker_ref, wpc, wrun, env_access_key, db_run_count>>
    /\ UNCHANGED dashFrame

\* collect_snapshot returns: its run was committed to the store.
CollectReturn(w) ==
    /\ wpc[w] = "collecting"
    /\ wpc' = [wpc EXCEPT ![w] = "exporting"]
    /\ db_run_count' = db_run_count + 1
    /\ wrun' = [wrun EXCEPT ![w] = db_run_count + 1]
    /\ UNCHANGED <<hpc, hres, hworker, worker_ref, wcalls, wexpected,
                   collection_state, env_access_key>>
    /\ UNCHANGED dashFrame

\* The export succeeded: the state becomes done and the refresh token grows.
WorkerDone(w) ==
    /\ wpc[w] = "exporting"
    /\ wpc' = [wpc EXCEPT ![w] = "finally"]
    /\ collection_state' =
         [collection_state EXCEPT
            !.phase = "done", !.message = "Collection complete.",
            !.completed_calls = wcalls[w],
            !.expected_total_calls = wexpected[w],
            !.percent_complete =
                IF wexpected[w] > 0 THEN Percent(wcalls[w], wexpected[w]) ELSE 100,
            !.refresh_token = collection_state.refresh_token + 1]
    /\ UNCHANGED <<hpc, hres, hworker, worker_ref, wcalls, wexpected,
                   wrun, env_access_key, db_run_count>>
    /\ UNCHANGED dashFrame

\* collect_snapshot or the export raised: the except branch sets the error state.
WorkerFail(w) ==
    /\ wpc[w] \in {"collecting", "exporting"}
    /\ wpc' = [wpc EXCEPT ![w] = "finally_after_except"]
    /\ collection_state' =
         [collection_state EXCEPT
            !.phase = "error", !.message = "Collection failed."]
    /\ UNCHANGED <<hpc, hres, hworker, worker_ref, wcalls, wexpected,
                   wrun, env_access_key, db_run_count>>
    /\ UNCHANGED dashFrame

\* worker_ref["thread"] = None under the lock (the finally block, and the
\* missing-key branch); run() returns and the thread ends.
WorkerClearSlot(w) ==
    /\ wpc[w] \in {"finally", "finally_after_except", "nokey_clear"}
    /\ worker_ref' = 0
    /\ wpc' = [wpc EXCEPT ![w] = "terminated"]
    /\ wcalls' = [wcalls EXCEPT ![w] = 0]
    /\ wexpected' = [wexpected EXCEPT ![w] = 0]
    /\ UNCHANGED <<hpc, hres, hworker, collection_state, wrun, env_access_key, db_run_count>>
    /\ UNCHANGED dashFrame

NextDash ==
    \/ \E t \in Handlers : StartCollectionLocked(t)
    \/ \E t \in Handlers : WorkerStart(t)
    \/ \E w \in Workers : WorkerCheckKey(w)
    \/ \E w \in Workers : ProgressHook(w)
    \/ \E w \in Workers : CollectReturn(w)
    \/ \E w \in Workers : WorkerDone(w)
    \/ \E w \in Workers : WorkerFail(w)
    \/ \E w \in Workers : WorkerClearSlot(w)

\* A collection worker is in flight while its thread is alive.
InFlight(w) == IsAlive(w)

\* C1: in one dashboard process at most one collection worker
\* (_run_collection_worker) is executing at any time, under every interleaving
\* of triggers with worker start-up, execution and shutdown.
C1_AtMostOneWorkerExecuting ==
    Cardinality({w \in Workers : Executing(w)}) <= 1

\* C2: a collect trigger that arrives while a collection worker is in flight is
\* a no-op: it returns "Collection is already running.", creates and starts no
\* thread, keeps the worker slot and leaves the collection state unchanged.
C2_TriggerWhileInFlightIsNoOp ==
    [][\A t \in Handlers :
         (StartCollectionLocked(t) /\ \E w \in Workers : InFlight(w))
            => /\ hres'[t] = "Collection is already running."
               /\ UNCHANGED <<worker_ref, wpc, hworker, collection_state>>]_vars

\* A worker thread ends: it leaves _run_collection_worker through the finally
\* block or through the return of the missing-key branch.
Ends(w) == IsAlive(w) /\ wpc'[w] = "terminated"

\* C21: a collection that was started leaves phase "running": when its worker
\* ends the phase is "done" only if collect_snapshot and the export raised
\* nothing, and it is "error" with a failure message if they raised or the key
\* was missing (then no request was made and no run written); the worker slot
\* is empty.
C21_EndsDoneOrError ==
    [][\A w \in Workers :
         Ends(w) =>
            /\ collection_state'.phase # "running"
            /\ collection_state'.phase = "done" => wpc[w] = "finally"
            /\ wpc[w] \in {"finally_after_except", "nokey_clear"}
                  => /\ collection_state'.phase = "error"
                     /\ collection_state'.message \in
                           {"Collection failed.", "Collection failed: no key."}
            /\ wpc[w] = "nokey_clear" => (wrun[w] = 0 /\ wcalls[w] = 0)
            /\ worker_ref' = 0]_vars

\* C29: a collection whose worker sets phase "error" committed no run, and a
\* collection that committed a run sets phase "done" and increments the
\* refresh token.
C29_ErrorMeansNoRun ==
    [][\A w \in Workers :
         (wpc[w] \in {"collecting", "exporting"}
            /\ wpc'[w] \in {"finally", "finally_after_except"})
            => /\ collection_state'.phase = "error" => wrun[w] = 0
               /\ wrun[w] # 0
                     => /\ collection_state'.phase = "done"
                        /\ collection_state'.refresh_token =
                              collection_state.refresh_token + 1]_vars

(***************************************************************************)
(* Part 2: the snapshot transaction of collect_snapshot over the store.    *)
(* Readers (the dashboard queries, the CSV export) use connections of      *)
(* their own and see the committed rows db_* only; the rows of an open     *)
(* write transaction are in tx_*.                                          *)
(***************************************************************************)

\* Bounds of the store model.
MaxRows == 2        \* photo rows one run assembles
MaxStoredRuns == 2  \* runs committed in one behaviour

\* Concurrent invocations of collect_snapshot (dashboard workers, the CLI), each
\* with a connection of its own: SQLite admits one writer, so two are what it
\* takes to interleave a transaction with another.
Collectors == {1, 2}
\* Photo identifiers: two make equal and different identifiers.
PhotoIds == {1, 2}

\* The variables of the other parts, which the store's actions leave alone.
storeFrame == <<dashVars, clientVars, pagerVars, laterVars>>

\* The sequences over S of length at most n.
RECURSIVE SeqsUpTo(_, _)
SeqsUpTo(S, n) ==
    IF n = 0 THEN {<<>>}
    ELSE LET shorter == SeqsUpTo(S, n - 1)
         IN shorter \cup {Append(q, x) : q \in {r \in shorter : Len(r) = n - 1}, x \in S}

\* The rows of the three tables, reduced to their keys.
RunRow(id) == [id |-> id]
UserRow(id) == [run_id |-> id]
PhotoRow(id, photo) == [run_id |-> id, photo_id |-> photo]

InitStore ==
    /\ cpc = [c \in Collectors |-> "idle"]
    /\ crows = [c \in Collectors |-> <<>>]
    /\ crun = [c \in Collectors |-> 0]
    /\ db_runs = {}
    /\ db_user_rows = {}
    /\ db_photo_rows = {}
    /\ db_seq = 0
    /\ db_writer = 0
    /\ tx_runs = {}
    /\ tx_user_rows = {}
    /\ tx_photo_rows = {}

\* Invocations of collect_snapshot that may still commit a run.
Persisting == {c \in Collectors : cpc[c] \in {"insert_run", "insert_user",
                                               "insert_photos", "commit"}}

\* collect_snapshot up to the point where the run is assembled: the account, its
\* statistics and the photo listing were fetched and photo_rows holds one row per
\* listed photo.
CollectAssembled(c) ==
    /\ cpc[c] = "idle"
    /\ db_seq + Cardinality(Persisting) < MaxStoredRuns
    /\ \E rows \in SeqsUpTo(PhotoIds, MaxRows) : crows' = [crows EXCEPT ![c] = rows]
    /\ cpc' = [cpc EXCEPT ![c] = "insert_run"]
    /\ UNCHANGED <<crun, db_runs, db_user_rows, db_photo_rows, db_seq, db_writer,
                   tx_runs, tx_user_rows, tx_photo_rows>>
    /\ UNCHANGED storeFrame

\* insert_collection_run on a connection in autocommit mode: the header is
\* committed by the INSERT itself.
InsertRunAutocommit(c) ==
    /\ cpc[c] = "insert_run"
    /\ db_writer = 0
    /\ db_writer' = c
    /\ db_runs' = db_runs \cup {RunRow(db_seq + 1)}
    /\ crun' = [crun EXCEPT ![c] = db_seq + 1]
    /\ cpc' = [cpc EXCEPT ![c] = "insert_user"]
    /\ UNCHANGED <<crows, db_user_rows, db_photo_rows, db_seq, tx_runs,
                   tx_user_rows, tx_photo_rows>>
    /\ UNCHANGED storeFrame

\* insert_collection_run inside "with connection": the INSERT opens the write
\* transaction (it needs SQLite's write lock) and lastrowid is the next value of
\* the AUTOINCREMENT sequence.
InsertRun(c) ==
    /\ cpc[c] = "insert_run"
    /\ db_writer = 0
    /\ db_writer' = c
    /\ tx_runs' = {RunRow(db_seq + 1)}
    /\ crun' = [crun EXCEPT ![c] = db_seq + 1]
    /\ cpc' = [cpc EXCEPT ![c] = "insert_user"]
    /\ UNCHANGED <<crows, db_runs, db_user_rows, db_photo_rows, db_seq,
                   tx_user_rows, tx_photo_rows>>
    /\ UNCHANGED storeFrame

\* insert_user_snapshot: one row tagged with the run id.
InsertUser(c) ==
    /\ cpc[c] = "insert_user"
    /\ tx_user_rows' = tx_user_rows \cup {UserRow(crun[c])}
    /\ cpc' = [cpc EXCEPT ![c] = "insert_photos"]
    /\ UNCHANGED <<crows, crun, db_runs, db_user_rows, db_photo_rows, db_seq,
                   db_writer, tx_runs, tx_photo_rows>>
    /\ UNCHANGED storeFrame

\* A table without UNIQUE(run_id, photo_id): no row is rejected.
FirstDuplicateUnconstrained(rows) == Len(rows) + 1

\* The first row of rows that repeats the photo id of an earlier row, which
\* UNIQUE(run_id, photo_id) rejects; Len(rows) + 1 when there is none.
FirstDuplicate(rows) ==
    LET dup == {i \in 1..Len(rows) : \E j \in 1..(i - 1) : rows[j] = rows[i]}
    IN IF dup = {} THEN Len(rows) + 1
       ELSE CHOOSE i \in dup : \A k \in dup : i <= k

\* insert_photo_snapshot_rows: executemany inserts the rows in order and raises
\* at the first row that fails, on the uniqueness constraint or on a storage error
\* (fault: the index of a row the storage refuses, 0 for none); the rows before
\* it stay in the open transaction.
InsertPhotoRows(c) ==
    /\ cpc[c] = "insert_photos"
    /\ \E fault \in 0..Len(crows[c]) :
         LET firstDup == FirstDuplicate(crows[c])
             stop == IF fault = 0 THEN firstDup ELSE Min(fault, firstDup)
         IN /\ tx_photo_rows' = tx_photo_rows \cup
                  {PhotoRow(crun[c], crows[c][i]) : i \in 1..(stop - 1)}
            /\ cpc' = [cpc EXCEPT ![c] =
                          IF stop > Len(crows[c]) THEN "commit" ELSE "raising"]
    /\ UNCHANGED <<crows, crun, db_runs, db_user_rows, db_photo_rows, db_seq,
                   db_writer, tx_runs, tx_user_rows>>
    /\ UNCHANGED storeFrame

\* An INSERT of the run header or of the user row, or the COMMIT, raises
\* sqlite3.Error (database locked by another writer, disk full, ...).
StatementFails(c) ==
    /\ cpc[c] \in {"insert_run", "insert_user", "commit"}
    /\ cpc' = [cpc EXCEPT ![c] = "raising"]
    /\ UNCHANGED <<crows, crun, db_runs, db_user_rows, db_photo_rows, db_seq,
                   db_writer, tx_runs, tx_user_rows, tx_photo_rows>>
    /\ UNCHANGED storeFrame

\* The with block ends normally: COMMIT makes the transaction's rows visible at
\* once, the connection is closed and collect_snapshot returns its result.
Commit(c) ==
    /\ cpc[c] = "commit"
    /\ db_runs' = db_runs \cup tx_runs
    /\ db_user_rows' = db_user_rows \cup tx_user_rows
    /\ db_photo_rows' = db_photo_rows \cup tx_photo_rows
    /\ db_seq' = crun[c]
    /\ db_writer' = 0
    /\ tx_runs' = {}
    /\ tx_user_rows' = {}
    /\ tx_photo_rows' = {}
    /\ cpc' = [cpc EXCEPT ![c] = "done"]
    /\ UNCHANGED <<crows, crun>>
    /\ UNCHANGED storeFrame

\* The with block ends by an exception and what was inserted is committed
\* instead of rolled back.
RollbackCommits(c) ==
    /\ cpc[c] = "raising"
    /\ IF db_writer = c
       THEN /\ db_writer' = 0
            /\ db_runs' = db_runs \cup tx_runs
            /\ db_user_rows' = db_user_rows \cup tx_user_rows
            /\ db_photo_rows' = db_photo_rows \cup tx_photo_rows
            /\ db_seq' = crun[c]
            /\ tx_runs' = {}
            /\ tx_user_rows' = {}
            /\ tx_photo_rows' = {}
       ELSE UNCHANGED <<db_writer, tx_runs, tx_user_rows, tx_photo_rows,
                        db_runs, db_user_rows, db_photo_rows, db_seq>>
    /\ cpc' = [cpc EXCEPT ![c] = "failed"]
    /\ UNCHANGED <<crows, crun>>
    /\ UNCHANGED storeFrame

\* The with block ends by an exception: ROLLBACK discards the transaction's rows,
\* the connection is closed and collect_snapshot raises.
Rollback(c) ==
    /\ cpc[c] = "raising"
    /\ IF db_writer = c
       THEN /\ db_writer' = 0
            /\ tx_runs' = {}
            /\ tx_user_rows' = {}
            /\ tx_photo_rows' = {}
       ELSE UNCHANGED <<db_writer, tx_runs, tx_user_rows, tx_photo_rows>>
    /\ cpc' = [cpc EXCEPT ![c] = "failed"]
    /\ UNCHANGED <<crows, crun, db_runs, db_user_rows, db_photo_rows, db_seq>>
    /\ UNCHANGED storeFrame

\* The caller has the result or the exception; the collector may be invoked again.
CollectorReset(c) ==
    /\ cpc[c] \in {"done", "failed"}
    /\ cpc' = [cpc EXCEPT ![c] = "idle"]
    /\ crows' = [crows EXCEPT ![c] = <<>>]
    /\ crun' = [crun EXCEPT ![c] = 0]
    /\ UNCHANGED <<db_runs, db_user_rows, db_photo_rows, db_seq, db_writer,
                   tx_runs, tx_user_rows, tx_photo_rows>>
    /\ UNCHANGED storeFrame

NextStore ==
    \/ \E c \in Collectors : CollectAssembled(c)
    \/ \E c \in Collectors : InsertRun(c)
    \/ \E c \in Collectors : InsertUser(c)
    \/ \E c \in Collectors : InsertPhotoRows(c)
    \/ \E c \in Collectors : StatementFails(c)
    \/ \E c \in Collectors : Commit(c)
    \/ \E c \in Collectors : Rollback(c)
    \/ \E c \in Collectors : CollectorReset(c)

\* The committed rows that carry run identifier id.
VisibleRowsOf(id) ==
    {r \in db_runs : r.id = id} \cup {u \in db_user_rows : u.run_id = id}
        \cup {p \in db_photo_rows : p.run_id = id}

\* The photo rows collector c assembled, tagged with its run id.
AssembledRows(c) == {PhotoRow(crun[c], crows[c][i]) : i \in 1..Len(crows[c])}

\* C3: if an insert of a run fails (the header, the user row, a row of the bulk
\* photo insert) or its commit fails, then when collect_snapshot has failed the
\* store holds none of that run's rows, its header included, and no step of the
\* failing invocation has changed the rows of the store.
C3_FailedRunLeavesNoRows ==
    [][\A c \in Collectors :
         /\ (cpc[c] # cpc'[c] /\ cpc'[c] \in {"insert_user", "insert_photos",
                                               "commit", "raising", "failed"})
               => UNCHANGED <<db_runs, db_user_rows, db_photo_rows>>
         /\ (cpc[c] = "raising" /\ cpc'[c] = "failed" /\ crun[c] # 0)
               => ({r \in db_runs' : r.id = crun[c]} = {}
                   /\ {u \in db_user_rows' : u.run_id = crun[c]} = {}
                   /\ {p \in db_photo_rows' : p.run_id = crun[c]} = {})]_vars

\* Witness of C3: an invocation has failed after its header insert had returned
\* a run id, while the store holds an earlier run.
C3_Witness ==
    \E c \in Collectors : cpc[c] = "failed" /\ crun[c] # 0 /\ db_runs # {}

\* C4: in every store state a reader can observe, every photo row's run id
\* refers to a run header whose user row exists, and a run's header, user row and
\* photo rows are visible together or not at all: a returned run shows all its
\* rows, an open transaction shows none.
C4_VisibleRunsAreWhole ==
    /\ \A p \in db_photo_rows :
         RunRow(p.run_id) \in db_runs /\ UserRow(p.run_id) \in db_user_rows
    /\ \A r \in db_runs : UserRow(r.id) \in db_user_rows
    /\ \A u \in db_user_rows : RunRow(u.run_id) \in db_runs
    /\ \A c \in Collectors :
         /\ cpc[c] = "done" =>
               VisibleRowsOf(crun[c]) =
                  {RunRow(crun[c]), UserRow(crun[c])} \cup AssembledRows(c)
         /\ db_writer = c => VisibleRowsOf(crun[c]) = {}

\* Witness of C4: a committed run with two photo rows is visible while another
\* collection holds photo rows in an open transaction.
C4_Witness ==
    \E c \in Collectors :
       /\ cpc[c] = "done"
       /\ Cardinality(AssembledRows(c)) = 2
       /\ db_writer \notin {0, c}
       /\ tx_photo_rows # {}

\* The listing gave collect_snapshot the same photo identifier twice.
ListedTwice(c) == \E i, j \in 1..Len(crows[c]) : i # j /\ crows[c][i] = crows[c][j]

\* C30: a run whose photo_rows hold the same photo identifier more than once
\* never returns a result: insert_photo_snapshot_rows raises, the transaction
\* is rolled back with the run header, the user row and the photo rows
\* inserted so far, and the committed tables are as they were.
C30_DuplicatePhotoFailsRun ==
    [][\A c \in Collectors :
         ListedTwice(c) =>
            /\ cpc'[c] # "done"
            /\ (cpc[c] = "insert_photos" /\ cpc'[c] # "insert_photos")
                  => cpc'[c] = "raising"
            /\ (cpc[c] = "raising" /\ cpc'[c] # "raising")
                  => /\ cpc'[c] = "failed"
                     /\ UNCHANGED <<db_runs, db_user_rows, db_photo_rows, db_seq>>
                     /\ db_writer = c
                           => (tx_runs' = {} /\ tx_user_rows' = {} /\ tx_photo_rows' = {})]_vars

\* A run with a repeated photo identifier has failed after its header, its user
\* row and a photo row were inserted, and the store holds nothing of it.
C30_Witness ==
    \E c \in Collectors :
       /\ ListedTwice(c)
       /\ cpc[c] = "failed"
       /\ crun[c] # 0
       /\ tx_runs = {}
       /\ \A r \in db_runs : r.id # crun[c]
       /\ \A r \in db_photo_rows : r.run_id # crun[c]

(***************************************************************************)
(* Part 3: the request loop of UnsplashClient._request.                    *)
(* A text is the sequence of the phrases it contains; a header value is a  *)
(* record of what the string holds; the times in headers are relative to   *)
(* the clock at the moment the header is read.                             *)
(***************************************************************************)

\* Bound of the client model.
MaxHits == 3        \* consecutive rate-limited responses of one request

\* Program constants.
DefaultMaxSleep == 1800
MinMaxSleep == 5
BackoffBase == 5
BackoffExponentCap == 8

clientFrame == <<dashVars, storeVars, pagerVars, laterVars>>

Paths == {"/users/u", "/photos/p/statistics?resolution=days&quantity=30"}

\* Phrases of error bodies and HTTP reason phrases.
Phrases == {"Rate Limit Exceeded", "too many requests", "OAuth error"}
Reasons == {"Forbidden", "Too Many Requests"}

\* str.lower().
Lower(phrase) ==
    CASE phrase = "Rate Limit Exceeded" -> "rate limit exceeded"
      [] phrase = "Too Many Requests" -> "too many requests"
      [] phrase = "OAuth error" -> "oauth error"
      [] phrase = "Forbidden" -> "forbidden"
      [] OTHER -> phrase

\* "rate limit" in text or "too many requests" in text, for a text given by
\* its phrases.
MentionsRateLimit(text) ==
    \E i \in 1..Len(text) : text[i] \in {"rate limit exceeded", "too many requests"}

LowerText(text) == [i \in 1..Len(text) |-> Lower(text[i])]

\* Values of the "errors" key of a JSON error body.
ErrorsValues ==
    {[tag |-> "absent"], [tag |-> "str", text |-> "Rate Limit Exceeded"]}
      \cup {[tag |-> "list", items |-> l] :
              l \in {<<>>, <<"OAuth error">>, <<"too many requests">>,
                     <<"OAuth error", "Rate Limit Exceeded">>}}
\* Values of the "error" key.
ErrorValues == {None} \cup Phrases

\* Bodies of error responses: empty, text that is not JSON, a JSON object, a
\* JSON value that is no object.
ErrorBodies ==
    {[kind |-> "empty"], [kind |-> "json_other"]}
      \cup {[kind |-> "text", text |-> t] : t \in Phrases}
      \cup {[kind |-> "json_dict", errors |-> e, error |-> x] :
              e \in ErrorsValues, x \in ErrorValues}

\* Bodies of success responses: empty, a JSON object, a JSON list, text that
\* is not JSON.
SuccessBodies ==
    {[kind |-> "empty"], [kind |-> "json_dict", errors |-> [tag |-> "absent"],
                          error |-> None],
     [kind |-> "json_other"], [kind |-> "text", text |-> "OAuth error"]}

\* Values of the X-Ratelimit-Remaining and X-Ratelimit-Limit headers: absent,
\* a number, or text that int() rejects.
RemainingHeaders == {[h |-> "absent"], [h |-> "int", v |-> 0], [h |-> "int", v |-> 7],
                     [h |-> "bad"]}
LimitHeaders == {[h |-> "absent"], [h |-> "int", v |-> 50], [h |-> "bad"]}

\* Values of the Retry-After header: absent, blank, a number of seconds, an
\* HTTP date (delta: seconds from now to the date), other text.
RetryAfterHeaders ==
    {[h |-> "absent"], [h |-> "blank"], [h |-> "bad"]}
      \cup {[h |-> "seconds", v |-> v] : v \in {-3, 0, 120, 5000}}
      \cup {[h |-> "date", delta |-> d] : d \in {-10, 10}}

\* Values of the X-Ratelimit-Reset header: absent, an epoch (delta: seconds
\* from now to it), text that float() rejects.
ResetHeaders ==
    {[h |-> "absent"], [h |-> "bad"]}
      \cup {[h |-> "epoch", delta |-> d] : d \in {-10, 0, 60, 5000}}

NoResponse == [status |-> -1]
NoHeaders == [retry_after |-> [h |-> "absent"], reset |-> [h |-> "absent"]]

\* UnsplashClient.__init__: the two limits as stored.
InitMinInterval(given) == Max(0, given)
InitMaxSleep(given) == Max(MinMaxSleep, given)

\* An Optional[int]: <<>> is None, <<n>> is the number n.
NoInt == <<>>
NoPayload == [kind |-> "none"]
NoOutcome == [kind |-> "none"]

InitClient ==
    /\ cfg_min_interval \in {0, 7}
    /\ cfg_max_sleep \in {DefaultMaxSleep, -1, 60}
    /\ min_request_interval_seconds = InitMinInterval(cfg_min_interval)
    /\ rate_limit_retry_max_sleep_seconds = InitMaxSleep(cfg_max_sleep)
    /\ rate_limit = NoInt
    /\ rate_limit_remaining = NoInt
    /\ rpc = "idle"
    /\ rreq = None
    /\ rsent = None
    /\ rate_limit_hits = 0
    /\ resp = NoResponse
    /\ rhdrs = NoHeaders
    /\ rwait = 0
    /\ routcome = NoOutcome

\* _update_rate_limit for one header that keeps the recorded value when int()
\* rejects the text.
UpdatedFromKeepsOnValueError(header, recorded) ==
    CASE header.h = "absent" -> recorded
      [] header.h = "int" -> <<header.v>>
      [] OTHER -> recorded

\* _update_rate_limit for one header: an absent header keeps the recorded value,
\* a number replaces it, other text resets it to None.
UpdatedFrom(header, recorded) ==
    CASE header.h = "absent" -> recorded
      [] header.h = "int" -> <<header.v>>
      [] OTHER -> NoInt

\* The phrases of a body's text.
BodyText(body) ==
    CASE body.kind = "text" -> <<body.text>>
      [] body.kind = "json_dict" ->
            (CASE body.errors.tag = "list" -> body.errors.items
               [] body.errors.tag = "str" -> <<body.errors.text>>
               [] OTHER -> <<>>)
            \o (IF body.error = None THEN <<>> ELSE <<body.error>>)
      [] OTHER -> <<>>

\* The message _request derives from an error response (the HTTPError branch):
\* the body or else the reason, replaced by the joined "errors" list or the
\* "error" value of a JSON object.
ErrorMessage(r) ==
    LET body == r.body
        plain == IF body.kind = "empty" THEN <<r.reason>> ELSE BodyText(body)
    IN IF body.kind = "json_dict"
       THEN IF body.errors.tag = "list" THEN body.errors.items
            ELSE IF body.error # None THEN <<body.error>>
            ELSE plain
       ELSE plain

\* payload: the parsed body when it is a JSON object, else None.
ErrorPayload(r) == IF r.body.kind = "json_dict" THEN r.body ELSE NoPayload

\* _is_rate_limited with a status test that forgets 403.
IsRateLimitedOnly429(remaining, status_code, message, payload) ==
    /\ status_code = 429
    /\ \/ remaining = <<0>>
       \/ MentionsRateLimit(LowerText(message))

\* _is_rate_limited; remaining is self.rate_limit_remaining at the call.
IsRateLimited(remaining, status_code, message, payload) ==
    /\ status_code \in {403, 429}
    /\ \/ remaining = <<0>>
       \/ MentionsRateLimit(LowerText(message))
       \/ /\ payload # NoPayload
          /\ payload.errors.tag = "list"
          /\ \E i \in 1..Len(payload.errors.items) :
                MentionsRateLimit(<<Lower(payload.errors.items[i])>>)

\* _parse_retry_after_seconds that also accepts a date in the past.
ParseRetryAfterAnyDate(value) ==
    CASE value.h = "seconds" /\ value.v > 0 -> <<value.v>>
      [] value.h = "date" -> <<value.delta>>
      [] OTHER -> NoInt

\* _parse_retry_after_seconds: positive seconds, or the seconds until an HTTP
\* date in the future, else None.
ParseRetryAfterSeconds(value) ==
    CASE value.h = "seconds" /\ value.v > 0 -> <<value.v>>
      [] value.h = "date" /\ value.delta > 0 -> <<value.delta>>
      [] OTHER -> NoInt

\* 2 ** n.
RECURSIVE Pow2(_)
Pow2(n) == IF n = 0 THEN 1 ELSE 2 * Pow2(n - 1)

\* _compute_rate_limit_wait_seconds that puts the reset header first.
ComputeWaitResetFirst(headers, hits) ==
    LET retry_after_seconds == ParseRetryAfterSeconds(headers.retry_after)
        reset == headers.reset
    IN IF reset.h = "epoch" /\ reset.delta > 0
       THEN Min(reset.delta + 1, rate_limit_retry_max_sleep_seconds)
       ELSE IF retry_after_seconds # NoInt
       THEN Min(retry_after_seconds[1], rate_limit_retry_max_sleep_seconds)
       ELSE Min(Max(min_request_interval_seconds, BackoffBase)
                   * Pow2(Min(hits, BackoffExponentCap)),
                rate_limit_retry_max_sleep_seconds)

\* _compute_rate_limit_wait_seconds whose exponent is not capped.
ComputeWaitUncappedExponent(headers, hits) ==
    LET retry_after_seconds == ParseRetryAfterSeconds(headers.retry_after)
        reset == headers.reset
    IN IF retry_after_seconds # NoInt
       THEN Min(retry_after_seconds[1], rate_limit_retry_max_sleep_seconds)
       ELSE IF reset.h = "epoch" /\ reset.delta > 0
       THEN Min(reset.delta + 1, rate_limit_retry_max_sleep_seconds)
       ELSE Min(Max(min_request_interval_seconds, BackoffBase) * Pow2(hits),
                rate_limit_retry_max_sleep_seconds)

\* _compute_rate_limit_wait_seconds.
ComputeRateLimitWaitSeconds(headers, hits) ==
    LET retry_after_seconds == ParseRetryAfterSeconds(headers.retry_after)
        reset == headers.reset
    IN IF retry_after_seconds # NoInt
       THEN Min(retry_after_seconds[1], rate_limit_retry_max_sleep_seconds)
       ELSE IF reset.h = "epoch" /\ reset.delta > 0
       THEN Min(reset.delta + 1, rate_limit_retry_max_sleep_seconds)
       ELSE Min(Max(min_request_interval_seconds, BackoffBase)
                   * Pow2(Min(hits, BackoffExponentCap)),
                rate_limit_retry_max_sleep_seconds)

\* json.loads of a success body ({} for an empty body); "JSONDecodeError" when
\* the body is no JSON.
DecodedBody(body) ==
    CASE body.kind = "empty" -> [type |-> "dict", keys |-> 0]
      [] body.kind = "json_dict" -> [type |-> "dict", keys |-> 1]
      [] body.kind = "json_other" -> [type |-> "list"]
      [] OTHER -> [type |-> "JSONDecodeError"]

\* A caller invokes _request(path, params): the Request object is built and the
\* hit counter starts at 0.
RequestCall ==
    /\ rpc = "idle"
    /\ \E path \in Paths : rreq' = path
    /\ rate_limit_hits' = 0
    /\ rpc' = "sending"
    /\ rsent' = None
    /\ resp' = NoResponse
    /\ rhdrs' = NoHeaders
    /\ rwait' = 0
    /\ routcome' = NoOutcome
    /\ UNCHANGED <<cfg_min_interval, cfg_max_sleep, min_request_interval_seconds,
                   rate_limit_retry_max_sleep_seconds, rate_limit, rate_limit_remaining>>
    /\ UNCHANGED clientFrame

\* urlopen answers with a success status: the rate-limit headers are recorded
\* and the decoded body is returned.
ReceiveSuccess ==
    /\ rpc = "sending"
    /\ \E rem \in RemainingHeaders, lim \in LimitHeaders, body \in SuccessBodies :
         /\ resp' = [status |-> 200, remaining |-> rem, limit |-> lim, body |-> body,
                     reason |-> "OK"]
         /\ rate_limit' = UpdatedFrom(lim, rate_limit)
         /\ rate_limit_remaining' = UpdatedFrom(rem, rate_limit_remaining)
         /\ IF DecodedBody(body).type = "JSONDecodeError"
            THEN /\ rpc' = "raised"
                 /\ routcome' = [kind |-> "raise", error |-> "JSONDecodeError"]
            ELSE /\ rpc' = "returned"
                 /\ routcome' = [kind |-> "return", value |-> DecodedBody(body)]
    /\ rsent' = rreq
    /\ UNCHANGED <<cfg_min_interval, cfg_max_sleep, min_request_interval_seconds,
                   rate_limit_retry_max_sleep_seconds, rreq, rate_limit_hits, rhdrs, rwait>>
    /\ UNCHANGED clientFrame

\* urlopen raises HTTPError: the rate-limit headers are recorded, the message and
\* payload are derived from the body, and the response is either a rate limit
\* (the loop goes on to wait) or raised as UnsplashAPIError.
ReceiveHttpError ==
    /\ rpc = "sending"
    /\ \E status \in {403, 429, 500}, rem \in RemainingHeaders, lim \in LimitHeaders,
          body \in ErrorBodies, reason \in Reasons :
         LET r == [status |-> status, remaining |-> rem, limit |-> lim, body |-> body,
                   reason |-> IF body.kind = "empty" THEN reason ELSE "Forbidden"]
             remaining == UpdatedFrom(rem, rate_limit_remaining)
             message == ErrorMessage(r)
             payload == ErrorPayload(r)
             limited == IsRateLimited(remaining, status, message, payload)
         IN /\ limited => rate_limit_hits < MaxHits
            /\ resp' = r
            /\ rate_limit' = UpdatedFrom(lim, rate_limit)
            /\ rate_limit_remaining' = remaining
            /\ IF limited
               THEN /\ rpc' = "rate_limited"
                    /\ routcome' = NoOutcome
               ELSE /\ rpc' = "raised"
                    /\ routcome' = [kind |-> "raise", error |-> "UnsplashAPIError", status_code |-> status,
                                    message |-> message, payload |-> payload]
    /\ rsent' = rreq
    /\ UNCHANGED <<cfg_min_interval, cfg_max_sleep, min_request_interval_seconds,
                   rate_limit_retry_max_sleep_seconds, rreq, rate_limit_hits, rhdrs, rwait>>
    /\ UNCHANGED clientFrame

\* urlopen raises URLError: no response was obtained.
TransportError ==
    /\ rpc = "sending"
    /\ resp' = NoResponse
    /\ rpc' = "raised"
    /\ routcome' = [kind |-> "raise", error |-> "UnsplashAPIError", status_code |-> 0,
                    message |-> <<"Connection error">>, payload |-> NoPayload]
    /\ rsent' = rreq
    /\ UNCHANGED <<cfg_min_interval, cfg_max_sleep, min_request_interval_seconds,
                   rate_limit_retry_max_sleep_seconds, rate_limit, rate_limit_remaining,
                   rreq, rate_limit_hits, rhdrs, rwait>>
    /\ UNCHANGED clientFrame

\* urlopen raises an exception that is neither HTTPError nor URLError (the
\* timeout of line 133 expiring while the response is awaited raises
\* TimeoutError, a connection closed before the status line raises
\* RemoteDisconnected): no except clause of _request matches and the exception
\* leaves _request as it is.
ResponseLost ==
    /\ rpc = "sending"
    /\ resp' = NoResponse
    /\ rpc' = "raised"
    /\ routcome' = [kind |-> "raise", error |-> "TimeoutError"]
    /\ rsent' = rreq
    /\ UNCHANGED <<cfg_min_interval, cfg_max_sleep, min_request_interval_seconds,
                   rate_limit_retry_max_sleep_seconds, rate_limit, rate_limit_remaining,
                   rreq, rate_limit_hits, rhdrs, rwait>>
    /\ UNCHANGED clientFrame

\* The rate-limited branch with a retry ceiling: the second rate-limited
\* response of a request is raised instead of waited for.
GiveUpAfterOneRetry ==
    /\ rpc = "rate_limited"
    /\ IF rate_limit_hits >= 1
       THEN /\ rpc' = "raised"
            /\ routcome' = [kind |-> "raise", error |-> "UnsplashAPIError",
                            status_code |-> resp.status, message |-> ErrorMessage(resp),
                            payload |-> ErrorPayload(resp)]
            /\ UNCHANGED <<rhdrs, rwait, rate_limit_hits>>
       ELSE /\ \E ra \in RetryAfterHeaders, reset \in ResetHeaders :
                 LET headers == [retry_after |-> ra, reset |-> reset]
                 IN /\ rhdrs' = headers
                    /\ rwait' = ComputeRateLimitWaitSeconds(headers, rate_limit_hits)
            /\ rate_limit_hits' = rate_limit_hits + 1
            /\ rpc' = "sleeping"
            /\ UNCHANGED routcome
    /\ UNCHANGED <<cfg_min_interval, cfg_max_sleep, min_request_interval_seconds,
                   rate_limit_retry_max_sleep_seconds, rate_limit, rate_limit_remaining,
                   rreq, rsent, resp>>
    /\ UNCHANGED clientFrame

\* The rate-limited branch: the wait is computed from the Retry-After and reset
\* headers of the response (read here for the first time) and from the hit counter,
\* the counter grows and the thread sleeps.
ComputeWaitAndSleep ==
    /\ rpc = "rate_limited"
    /\ \E ra \in RetryAfterHeaders, reset \in ResetHeaders :
         LET headers == [retry_after |-> ra, reset |-> reset]
         IN /\ rhdrs' = headers
            /\ rwait' = ComputeRateLimitWaitSeconds(headers, rate_limit_hits)
    /\ rate_limit_hits' = rate_limit_hits + 1
    /\ rpc' = "sleeping"
    /\ UNCHANGED <<cfg_min_interval, cfg_max_sleep, min_request_interval_seconds,
                   rate_limit_retry_max_sleep_seconds, rate_limit, rate_limit_remaining,
                   rreq, rsent, resp, routcome>>
    /\ UNCHANGED clientFrame

\* time.sleep(wait_seconds) returns and the loop continues with the same Request.
WakeUp ==
    /\ rpc = "sleeping"
    /\ rpc' = "sending"
    /\ resp' = NoResponse
    /\ rhdrs' = NoHeaders
    /\ rwait' = 0
    /\ UNCHANGED <<cfg_min_interval, cfg_max_sleep, min_request_interval_seconds,
                   rate_limit_retry_max_sleep_seconds, rate_limit, rate_limit_remaining,
                   rreq, rsent, rate_limit_hits, routcome>>
    /\ UNCHANGED clientFrame

\* The caller has taken the value or the exception; the client is free again.
RequestEnd ==
    /\ rpc \in {"returned", "raised"}
    /\ rpc' = "idle"
    /\ rreq' = None
    /\ rsent' = None
    /\ rate_limit_hits' = 0
    /\ resp' = NoResponse
    /\ routcome' = NoOutcome
    /\ UNCHANGED <<cfg_min_interval, cfg_max_sleep, min_request_interval_seconds,
                   rate_limit_retry_max_sleep_seconds, rate_limit, rate_limit_remaining,
                   rhdrs, rwait>>
    /\ UNCHANGED clientFrame

NextClient ==
    \/ RequestCall
    \/ ReceiveSuccess
    \/ ReceiveHttpError
    \/ TransportError
    \/ ResponseLost
    \/ ComputeWaitAndSleep
    \/ WakeUp
    \/ RequestEnd

\* The wordings that contain "rate limit" or "too many requests" in some
\* letter case.
RateLimitWordings ==
    {"Rate Limit Exceeded", "rate limit exceeded", "too many requests", "Too Many Requests"}

HasRateLimitWording(text) == \E i \in 1..Len(text) : text[i] \in RateLimitWordings

\* The structured errors list of a response ([] when the body carries none).
ErrorsList(r) ==
    IF r.body.kind = "json_dict" /\ r.body.errors.tag = "list"
    THEN r.body.errors.items ELSE <<>>

\* The condition of C5 on the response just received.
Retryable ==
    /\ resp.status \in {403, 429}
    /\ \/ rate_limit_remaining = <<0>>
       \/ HasRateLimitWording(ErrorMessage(resp))
       \/ HasRateLimitWording(ErrorsList(resp))

\* An HTTP error response has been received and classified.
Classified == rpc \in {"rate_limited", "sleeping", "raised"} /\ resp.status \in {403, 429, 500}

\* C5: an error response is taken as a retryable rate limit exactly when its
\* status is 403 or 429 and the remaining quota is 0 or the message or an entry
\* of the errors list has the rate-limit wording in any letter case; a 429 whose
\* remaining header is 0 goes on to sleep and is not raised; a 429 whose
\* remaining header is positive and that has no such wording is raised as an
\* UnsplashAPIError.
C5_RateLimitClassification ==
    Classified =>
       /\ (rpc \in {"rate_limited", "sleeping"}) <=> Retryable
       /\ (rpc = "raised") <=> ~Retryable
       /\ (resp.status = 429 /\ resp.remaining = [h |-> "int", v |-> 0])
             => rpc \in {"rate_limited", "sleeping"}
       /\ ( /\ resp.status = 429
            /\ resp.remaining.h = "int"
            /\ resp.remaining.v > 0
            /\ ~HasRateLimitWording(ErrorMessage(resp))
            /\ ~HasRateLimitWording(ErrorsList(resp)) )
             => /\ rpc = "raised"
                /\ routcome.error = "UnsplashAPIError"
                /\ routcome.status_code = 429

\* Witness of C5: a 403 without a remaining header whose errors list carries
\* the wording in capitals is asleep for a retry.
C5_Witness ==
    /\ rpc = "sleeping"
    /\ resp.status = 403
    /\ rate_limit_remaining # <<0>>
    /\ resp.body.kind = "json_dict"
    /\ resp.body.errors.tag = "list"
    /\ resp.body.errors.items = <<"OAuth error", "Rate Limit Exceeded">>

\* C6: whatever the number of rate-limited responses so far, a rate-limited
\* response is followed by a sleep of the computed (positive) wait and then by
\* a send of the same request; a request is raised only for a response that is
\* no rate limit; a success response with a decodable body makes the request
\* return the decoded body at once.
C6_RateLimitNeverSurfaced ==
    [][/\ rpc = "rate_limited"
          => /\ rpc' = "sleeping"
             /\ rwait' = ComputeRateLimitWaitSeconds(rhdrs', rate_limit_hits)
             /\ rreq' = rreq
       /\ rpc = "sleeping" => (rpc' = "sending" /\ rreq' = rreq)
       /\ (rpc = "sending" /\ rpc' # "sending") => rsent' = rreq
       /\ (rpc = "sending" /\ rpc' = "raised")
             => \/ routcome'.error # "UnsplashAPIError"
                \/ routcome'.status_code = 0
                \/ ~Retryable'
       /\ (rpc = "sending" /\ resp'.status = 200 /\ resp'.body.kind # "text")
             => /\ rpc' = "returned"
                /\ routcome' = [kind |-> "return", value |-> DecodedBody(resp'.body)]]_vars

\* Witness of C6: a request returns its decoded body after MaxHits rate-limited
\* responses in a row.
C6_Witness ==
    /\ rpc = "returned"
    /\ rate_limit_hits = MaxHits
    /\ rsent = rreq
    /\ routcome.value.type = "dict"

\* C12: a request that ends neither in a success response nor in a rate-limit
\* wait fails with UnsplashAPIError: with the status code, the message and the
\* payload of the response when the remote answered, with status code 0 when
\* no response was obtained.
C12_FailuresAreApiErrors ==
    (rpc = "raised" /\ resp.status # 200) =>
       /\ routcome.error = "UnsplashAPIError"
       /\ resp = NoResponse => routcome.status_code = 0
       /\ resp # NoResponse =>
             /\ routcome.status_code = resp.status
             /\ routcome.message = ErrorMessage(resp)
             /\ routcome.payload = ErrorPayload(resp)

\* A Retry-After header the claim calls usable, and its seconds.
UsableRetryAfter(h) ==
    \/ h.h = "seconds" /\ h.v > 0
    \/ h.h = "date" /\ h.delta > 0

RetryAfterValue(h) == IF h.h = "seconds" THEN h.v ELSE h.delta

\* The exponential backoff after n earlier rate-limited responses.
Backoff(n) ==
    Max(min_request_interval_seconds, BackoffBase) * Pow2(Min(n, BackoffExponentCap))

\* C7: the wait slept is taken (a) from a usable Retry-After header whatever
\* the reset header says, (b) else from a reset header in the future as
\* reset - now + 1, (c) else from the exponential backoff; each capped at the
\* ceiling.
C7_WaitPriorityOrder ==
    rpc = "sleeping" =>
       LET ra == rhdrs.retry_after
           reset == rhdrs.reset
           ceiling == rate_limit_retry_max_sleep_seconds
       IN IF UsableRetryAfter(ra)
          THEN rwait = Min(RetryAfterValue(ra), ceiling)
          ELSE IF reset.h = "epoch" /\ reset.delta > 0
          THEN rwait = Min(reset.delta + 1, ceiling)
          ELSE rwait = Min(Backoff(rate_limit_hits - 1), ceiling)

\* Witness of C7: a Retry-After date 10 seconds ahead wins over a reset 60
\* seconds ahead.
C7_Witness ==
    /\ rpc = "sleeping"
    /\ rhdrs.retry_after = [h |-> "date", delta |-> 10]
    /\ rhdrs.reset = [h |-> "epoch", delta |-> 60]
    /\ rwait = 10

\* C8: every wait slept is positive and at most the ceiling; the ceiling is at
\* least 5 and is 1800 when the caller keeps the default; a Retry-After of 120
\* gives min(120, ceiling).
C8_WaitWithinCeiling ==
    /\ rate_limit_retry_max_sleep_seconds >= 5
    /\ cfg_max_sleep = 1800 => rate_limit_retry_max_sleep_seconds = 1800
    /\ rpc = "sleeping" =>
          /\ rwait > 0
          /\ rwait <= rate_limit_retry_max_sleep_seconds
          /\ rhdrs.retry_after = [h |-> "seconds", v |-> 120]
                => rwait = Min(120, rate_limit_retry_max_sleep_seconds)

\* Witness of C8: with a configured ceiling of -1 the backoff of the third
\* rate-limited response is cut to 5 seconds.
C8_Witness ==
    /\ rpc = "sleeping"
    /\ cfg_max_sleep = -1
    /\ rate_limit_hits = 3
    /\ ~UsableRetryAfter(rhdrs.retry_after)
    /\ rhdrs.reset.h # "epoch"
    /\ rwait = 5

\* A header that is present in the response.
Present(header) == header.h # "absent"

\* The step in which _request stops waiting for urlopen.
RequestAnswered == rpc = "sending" /\ rpc' # "sending"

\* C26 as stated: after every response the recorded limit and remaining quota
\* equal the values of the response's headers when present; an absent header
\* leaves the recorded value unchanged; a request that obtains no response
\* changes neither.
C26_RecordedEqualsHeaders ==
    [][RequestAnswered =>
         IF resp' = NoResponse
         THEN rate_limit' = rate_limit /\ rate_limit_remaining' = rate_limit_remaining
         ELSE /\ IF Present(resp'.limit)
                 THEN resp'.limit.h = "int" /\ rate_limit' = <<resp'.limit.v>>
                 ELSE rate_limit' = rate_limit
              /\ IF Present(resp'.remaining)
                 THEN /\ resp'.remaining.h = "int"
                      /\ rate_limit_remaining' = <<resp'.remaining.v>>
                 ELSE rate_limit_remaining' = rate_limit_remaining]_vars

\* The recorded value after a response with the given header.
RecordedAfter(header, before, after) ==
    CASE header.h = "absent" -> after = before
      [] header.h = "int" -> after = <<header.v>>
      [] OTHER -> after = NoInt

\* C26, amended: after every response the recorded limit and remaining quota
\* equal the values of the response's headers when these are present and
\* integers; a present header that is no integer leaves the recorded value
\* unknown (None); an absent header leaves it unchanged; a request that obtains
\* no response changes neither.
C26_RecordedFollowsHeaders ==
    [][RequestAnswered =>
         IF resp' = NoResponse
         THEN rate_limit' = rate_limit /\ rate_limit_remaining' = rate_limit_remaining
         ELSE /\ RecordedAfter(resp'.limit, rate_limit, rate_limit')
              /\ RecordedAfter(resp'.remaining, rate_limit_remaining,
                               rate_limit_remaining')]_vars

\* Witness of C26: a response whose remaining header is no integer and that has
\* no limit header has been obtained by a client that had recorded a limit:
\* the remaining quota is unknown and the limit is kept.
C26_Witness ==
    /\ rpc \in {"returned", "raised", "rate_limited"}
    /\ resp # NoResponse
    /\ resp.remaining.h = "bad"
    /\ resp.limit.h = "absent"
    /\ rate_limit_remaining = NoInt
    /\ rate_limit = <<50>>

\* C27: whether a 403/429 response is retried depends on that response alone: a
\* 403/429 response without a remaining-quota header and without rate-limit
\* wording is raised as an API error, whatever earlier responses carried.
C27_RetryDependsOnResponseOnly ==
    ( /\ Classified
      /\ resp.status \in {403, 429}
      /\ resp.remaining.h = "absent"
      /\ ~HasRateLimitWording(ErrorMessage(resp))
      /\ ~HasRateLimitWording(ErrorsList(resp)) )
       => /\ rpc = "raised"
          /\ routcome.error = "UnsplashAPIError"
          /\ routcome.status_code = resp.status

(***************************************************************************)
(* Part 3b: the request loop answered by rate limits without usable retry  *)
(* headers, for the exponential backoff.                                   *)
(***************************************************************************)

\* Bound of the backoff model.
MaxBackoffHits == 10    \* consecutive rate-limited responses of one request

\* Retry-After and reset headers from which no wait can be taken.
UnusableRetryAfterHeaders ==
    {[h |-> "absent"], [h |-> "bad"], [h |-> "seconds", v |-> 0],
     [h |-> "date", delta |-> -10]}
UnusableResetHeaders ==
    {[h |-> "absent"], [h |-> "bad"], [h |-> "epoch", delta |-> -10]}

\* urlopen raises HTTPError with an empty body: a 429 is a rate limit by its
\* reason phrase, a 500 is raised as UnsplashAPIError.
ReceiveErrorWithoutBody ==
    /\ rpc = "sending"
    /\ \E status \in {429, 500}, rem \in {[h |-> "absent"], [h |-> "int", v |-> 0]} :
         LET r == [status |-> status, remaining |-> rem, limit |-> [h |-> "absent"],
                   body |-> [kind |-> "empty"], reason |-> "Too Many Requests"]
             remaining == UpdatedFrom(rem, rate_limit_remaining)
             message == ErrorMessage(r)
             payload == ErrorPayload(r)
             limited == IsRateLimited(remaining, status, message, payload)
         IN /\ limited => rate_limit_hits < MaxBackoffHits
            /\ resp' = r
            /\ rate_limit' = UpdatedFrom(r.limit, rate_limit)
            /\ rate_limit_remaining' = remaining
            /\ IF limited
               THEN /\ rpc' = "rate_limited"
                    /\ routcome' = NoOutcome
               ELSE /\ rpc' = "raised"
                    /\ routcome' = [kind |-> "raise", error |-> "UnsplashAPIError",
                                    status_code |-> status, message |-> message,
                                    payload |-> payload]
    /\ rsent' = rreq
    /\ UNCHANGED <<cfg_min_interval, cfg_max_sleep, min_request_interval_seconds,
                   rate_limit_retry_max_sleep_seconds, rreq, rate_limit_hits, rhdrs, rwait>>
    /\ UNCHANGED clientFrame

\* The rate-limited branch for a response whose retry headers are unusable.
ComputeBackoffAndSleep ==
    /\ rpc = "rate_limited"
    /\ \E ra \in UnusableRetryAfterHeaders, reset \in UnusableResetHeaders :
         LET headers == [retry_after |-> ra, reset |-> reset]
         IN /\ rhdrs' = headers
            /\ rwait' = ComputeRateLimitWaitSeconds(headers, rate_limit_hits)
    /\ rate_limit_hits' = rate_limit_hits + 1
    /\ rpc' = "sleeping"
    /\ UNCHANGED <<cfg_min_interval, cfg_max_sleep, min_request_interval_seconds,
                   rate_limit_retry_max_sleep_seconds, rate_limit, rate_limit_remaining,
                   rreq, rsent, resp, routcome>>
    /\ UNCHANGED clientFrame

\* time.sleep(wait_seconds) returns and the loop continues; the local
\* wait_seconds keeps its value until the next rate-limited response.
SleepReturns ==
    /\ rpc = "sleeping"
    /\ rpc' = "sending"
    /\ resp' = NoResponse
    /\ rhdrs' = NoHeaders
    /\ UNCHANGED <<cfg_min_interval, cfg_max_sleep, min_request_interval_seconds,
                   rate_limit_retry_max_sleep_seconds, rate_limit, rate_limit_remaining,
                   rreq, rsent, rate_limit_hits, routcome, rwait>>
    /\ UNCHANGED clientFrame

NextBackoff ==
    \/ RequestCall
    \/ ReceiveSuccess
    \/ ReceiveErrorWithoutBody
    \/ ComputeBackoffAndSleep
    \/ SleepReturns
    \/ RequestEnd

\* C25: with no usable retry header the n-th consecutive rate-limited response
\* of a request (n from 0, and 0 again for every new request) is waited for
\* min(max(min_interval, 5) * 2^min(n, 8), ceiling) seconds; within a request
\* the waits never decrease and are the same from n = 8 on.
C25_BackoffGrowsToCap ==
    [][/\ (rpc = "idle" /\ rpc' = "sending") => rate_limit_hits' = 0
       /\ (rpc = "rate_limited" /\ rpc' = "sleeping") =>
             LET n == rate_limit_hits
             IN /\ rate_limit_hits' = n + 1
                /\ rwait' = Min(Max(min_request_interval_seconds, 5) * Pow2(Min(n, 8)),
                                rate_limit_retry_max_sleep_seconds)
                /\ n >= 1 => rwait' >= rwait
                /\ n > 8 => rwait' = rwait]_vars

\* Witness of C25: the tenth rate-limited response of a request with a minimum
\* interval of 7 seconds is waited for 7 * 2^8 seconds, under the ceiling.
C25_Witness ==
    /\ rpc = "sleeping"
    /\ min_request_interval_seconds = 7
    /\ rate_limit_hits = 10
    /\ rwait = 1792
    /\ rwait < rate_limit_retry_max_sleep_seconds

(***************************************************************************)
(* Part 4: the generator UnsplashClient.iter_user_photos.                  *)
(* A page is the answer of one _request call: a list of so many photos, a  *)
(* JSON value that is no list, or an exception raised by _request.  The    *)
(* server never returns more photos than the per_page it was asked for.    *)
(***************************************************************************)

\* Bounds of the pager model.
MaxPagesArg == 2    \* largest max_pages passed
MaxItemsArg == 3    \* largest max_items passed
MaxFullPages == 2   \* full pages the server holds

\* Program constant: the largest page size.
PageSizeCap == 30

pagerFrame == <<dashVars, storeVars, clientVars, laterVars>>

PerPageArgs == {0, 2, PageSizeCap + 1}
Optional(S) == {<<>>} \cup {<<n>> : n \in S}
NoPage == [kind |-> "none"]

\* per_page = max(1, min(per_page, 30)).
EffectivePerPage(given) == Max(1, Min(given, PageSizeCap))

\* The state at the call of iter_user_photos, before the first next().
InitPager ==
    /\ per_page_arg \in PerPageArgs
    /\ max_pages \in Optional(0..MaxPagesArg)
    /\ max_items \in Optional(0..MaxItemsArg)
    /\ per_page = EffectivePerPage(per_page_arg)
    /\ emitted = 0
    /\ page = 1
    /\ photos = NoPage
    /\ pidx = 0
    /\ ppc = "loop"
    /\ prequests = 0
    /\ pyielded = 0

\* The answers _request can give to a page request.
PageAnswers ==
    {[kind |-> "nonlist"], [kind |-> "error"]}
       \cup {[kind |-> "list", len |-> n] : n \in 0..per_page}

\* An item test that lets the loop go on after a short page.
PageIsLastNever(page_photos) == FALSE

\* len(photos) < per_page.
PageIsLast(page_photos) == page_photos.len < per_page

\* max_items is not None and emitted >= max_items.
ItemLimitReached(count) == max_items # <<>> /\ count >= max_items[1]

\* The top of the while loop: the page limit is tested, then the page is
\* requested; an empty page or a value that is no list ends the generator, an
\* exception of _request leaves it, a list starts the for loop.
PageRequest ==
    /\ ppc = "loop"
    /\ IF max_pages # <<>> /\ page > max_pages[1]
       THEN /\ ppc' = "done"
            /\ UNCHANGED <<photos, pidx, prequests>>
       ELSE /\ prequests' = prequests + 1
            /\ \E answer \in PageAnswers :
                 /\ (answer.kind = "list" /\ answer.len = per_page)
                       => prequests < MaxFullPages
                 /\ photos' = answer
                 /\ IF answer.kind = "error"
                    THEN ppc' = "raised" /\ pidx' = 0
                    ELSE IF answer.kind = "nonlist" \/ answer.len = 0
                    THEN ppc' = "done" /\ pidx' = 0
                    ELSE ppc' = "for" /\ pidx' = 1
    /\ UNCHANGED <<per_page_arg, per_page, max_pages, max_items, page, emitted, pyielded>>
    /\ UNCHANGED pagerFrame

\* yield photo: the generator hands photos[pidx] to the consumer and is
\* suspended.
YieldPhoto ==
    /\ ppc = "for"
    /\ pyielded' = pyielded + 1
    /\ ppc' = "suspended"
    /\ UNCHANGED <<per_page_arg, per_page, max_pages, max_items, page, emitted, photos,
                   pidx, prequests>>
    /\ UNCHANGED pagerFrame

\* The consumer asks for the next photo: the generator counts the photo it has
\* yielded, returns when the item limit is reached, else goes on with the for
\* loop, and after the last photo of the page either ends or turns to the next
\* page.
ResumeAfterYield ==
    /\ ppc = "suspended"
    /\ emitted' = emitted + 1
    /\ IF ItemLimitReached(emitted + 1)
       THEN ppc' = "done" /\ UNCHANGED <<pidx, page>>
       ELSE IF pidx < photos.len
       THEN ppc' = "for" /\ pidx' = pidx + 1 /\ UNCHANGED page
       ELSE IF PageIsLast(photos)
       THEN ppc' = "done" /\ UNCHANGED <<pidx, page>>
       ELSE ppc' = "loop" /\ page' = page + 1 /\ UNCHANGED pidx
    /\ UNCHANGED <<per_page_arg, per_page, max_pages, max_items, photos, prequests,
                   pyielded>>
    /\ UNCHANGED pagerFrame

NextPager ==
    \/ PageRequest
    \/ YieldPhoto
    \/ ResumeAfterYield

\* The page or item limit is reached once page k has been consumed.
LimitReached ==
    \/ max_pages # <<>> /\ prequests >= max_pages[1]
    \/ max_items # <<>> /\ pyielded >= max_items[1]

FullPage(answer) == answer.kind = "list" /\ answer.len = per_page

\* C9: a further page is requested only after a page of exactly per_page
\* photos with no limit reached, and once such a page is consumed with no limit
\* reached the generator's next step is the request of the next page; a page of
\* fewer photos ends the generator with no further request; an empty page after
\* a full one is requested once and ends it; an empty page or a value that is
\* no list ends it without an exception.
C9_NextPageIffFullPage ==
    [][/\ (prequests >= 1 /\ prequests' = prequests + 1)
             => (FullPage(photos) /\ ~LimitReached)
       /\ (ppc = "suspended" /\ pidx = photos.len /\ FullPage(photos) /\ ~LimitReached')
             => (ppc' = "loop" /\ page' = page + 1)
       /\ (ppc = "loop" /\ page >= 2 /\ ~LimitReached)
             => (prequests' = prequests + 1 /\ page' = page)
       /\ (ppc = "suspended" /\ pidx = photos.len /\ ~FullPage(photos))
             => (ppc' = "done" /\ prequests' = prequests)
       /\ (ppc = "loop" /\ prequests' = prequests + 1
              /\ photos' \in {[kind |-> "nonlist"], [kind |-> "list", len |-> 0]})
             => ppc' = "done"
       /\ ppc \in {"done", "raised"} => prequests' = prequests]_vars

\* Witness of C9: a full page of two photos was followed by an empty page, which
\* was requested once and ended the generator.
C9_Witness ==
    /\ ppc = "done"
    /\ per_page = 2
    /\ prequests = 2
    /\ pyielded = 2
    /\ photos = [kind |-> "list", len |-> 0]

\* C10: the generator hands out at most max_items photos, requests at most
\* max_pages pages, uses a page size within 1..30 and comes to an end.
C10_LimitsHold ==
    /\ max_items # <<>> => pyielded <= max_items[1]
    /\ max_pages # <<>> => prequests <= max_pages[1]
    /\ per_page \in 1..PageSizeCap

(***************************************************************************)
(* Part 5: the pacing of the requests of one client in time.               *)
(* The clock counts whole seconds; time passes while the client is idle,   *)
(* while a request is in flight and while the client sleeps.               *)
(***************************************************************************)

\* Bound of the pacing model.
MaxClock == 16      \* the clock's last value

paceFrame == <<dashVars, storeVars, clientVars, pagerVars, collectVars, viewVars,
               schemaVars, callbackVars>>

\* Waits of the rate-limited branch, in seconds.
RateLimitWaits == {1, 5}

InitPace ==
    /\ clock = 0
    /\ last_request_at_monotonic = <<>>
    /\ tpc = "idle"
    /\ prev_ended_at = <<>>
    /\ prev_response_at = <<>>
    /\ prev_outcome = "none"

\* The sleep of _enforce_min_request_interval with the difference taken the
\* wrong way round.
SleepSecondsReversed(now) ==
    IF min_request_interval_seconds <= 0 THEN 0
    ELSE IF last_request_at_monotonic = <<>> THEN 0
    ELSE Max(0, (now - last_request_at_monotonic[1]) - min_request_interval_seconds)

\* _enforce_min_request_interval: the seconds slept before a request handed to
\* urlopen at time now.
SleepSeconds(now) ==
    IF min_request_interval_seconds <= 0 THEN 0
    ELSE IF last_request_at_monotonic = <<>> THEN 0
    ELSE Max(0, min_request_interval_seconds - (now - last_request_at_monotonic[1]))

\* A second passes.
Tick ==
    /\ tpc \in {"idle", "in_flight"}
    /\ clock < MaxClock
    /\ clock' = clock + 1
    /\ UNCHANGED <<last_request_at_monotonic, tpc, prev_ended_at, prev_response_at,
                   prev_outcome>>
    /\ UNCHANGED paceFrame

\* A caller invokes _request.
PaceCall ==
    /\ tpc = "idle"
    /\ tpc' = "loop"
    /\ UNCHANGED <<clock, last_request_at_monotonic, prev_ended_at, prev_response_at,
                   prev_outcome>>
    /\ UNCHANGED paceFrame

\* The head of the while loop: _enforce_min_request_interval sleeps, then the
\* request is handed to urlopen.
EnforceAndIssue ==
    /\ tpc = "loop"
    /\ clock + SleepSeconds(clock) <= MaxClock
    /\ clock' = clock + SleepSeconds(clock)
    /\ tpc' = "in_flight"
    /\ UNCHANGED <<last_request_at_monotonic, prev_ended_at, prev_response_at, prev_outcome>>
    /\ UNCHANGED paceFrame

\* urlopen returns a response or raises HTTPError: the time is recorded; a
\* rate-limited response goes on to its sleep, the others end the call.
ResponseReceived ==
    /\ tpc = "in_flight"
    /\ \E outcome \in {"success", "http_error", "rate_limited"} :
         /\ prev_outcome' = outcome
         /\ tpc' = IF outcome = "rate_limited" THEN "rate_limit_sleep" ELSE "idle"
    /\ last_request_at_monotonic' = <<clock>>
    /\ prev_ended_at' = <<clock>>
    /\ prev_response_at' = <<clock>>
    /\ UNCHANGED clock
    /\ UNCHANGED paceFrame

\* urlopen raises URLError: UnsplashAPIError(0, ...) is raised and no time is
\* recorded.
ConnectionFailed ==
    /\ tpc = "in_flight"
    /\ prev_outcome' = "url_error"
    /\ prev_ended_at' = <<clock>>
    /\ tpc' = "idle"
    /\ UNCHANGED <<clock, last_request_at_monotonic, prev_response_at>>
    /\ UNCHANGED paceFrame

\* time.sleep(wait_seconds) of the rate-limited branch, then continue.
RateLimitSleep ==
    /\ tpc = "rate_limit_sleep"
    /\ \E wait \in RateLimitWaits :
         /\ clock + wait <= MaxClock
         /\ clock' = clock + wait
    /\ tpc' = "loop"
    /\ UNCHANGED <<last_request_at_monotonic, prev_ended_at, prev_response_at, prev_outcome>>
    /\ UNCHANGED paceFrame

NextPace ==
    \/ Tick
    \/ PaceCall
    \/ EnforceAndIssue
    \/ ResponseReceived
    \/ ConnectionFailed
    \/ RateLimitSleep

\* The step that hands a request to urlopen.
Issues == tpc = "loop" /\ tpc' = "in_flight"

\* C11 as claimed: with an interval configured, a request is handed to urlopen
\* no sooner than the interval after the end of the previous request, whatever
\* the outcome of that request was.
C11_IntervalAfterAnyRequest ==
    [][(Issues /\ min_request_interval_seconds > 0 /\ prev_outcome # "none")
          => clock' - prev_ended_at[1] >= min_request_interval_seconds]_vars

\* C11 as amended: with an interval configured, once a request has obtained an
\* HTTP response (success, HTTP error or rate limit) the next request is handed
\* to urlopen after a wait of max(0, interval - elapsed since that response), so
\* no sooner than the interval after the latest response; while no response has
\* been obtained (only connection failures, or no request at all) the request is
\* issued without a wait.
C11_IntervalAfterResponse ==
    [][(Issues /\ min_request_interval_seconds > 0)
          => IF prev_response_at = <<>>
             THEN clock' = clock
             ELSE /\ clock' - clock =
                       Max(0, min_request_interval_seconds - (clock - prev_response_at[1]))
                  /\ clock' - prev_response_at[1] >= min_request_interval_seconds]_vars

\* Witness of C11: the retry after a rate-limited response that was slept on
\* for one second has waited for the rest of the interval and is in flight.
C11_Witness ==
    /\ tpc = "in_flight"
    /\ min_request_interval_seconds = 7
    /\ prev_outcome = "rate_limited"
    /\ prev_response_at # <<>>
    /\ clock = prev_response_at[1] + 7

(***************************************************************************)
(* Part 6: one invocation of collect_snapshot.                             *)
(* The client of the invocation is the client of part 3 reduced to what    *)
(* collect_snapshot reads of it: min_request_interval_seconds, rate_limit  *)
(* and the events it hands to its request observer.  The listing is the    *)
(* stream of photos the generator yields, each with or without statistics. *)
(* Intervals are whole seconds: the limits and fractions drawn make every  *)
(* quotient 3600 / (limit x fraction) whole.                               *)
(***************************************************************************)

\* Bounds of the collector model.
MaxPhotos == 2      \* photos the listing holds
MaxRequests == 5    \* requests one invocation performs

\* Program constants.
SecondsPerHour == 3600
EstimatePerPage == 30
FixedCalls == 2

collectFrame == <<dashVars, pagerVars, paceVars, viewVars, schemaVars, callbackVars>>

\* What collect_snapshot leaves alone of the store and of the client.
collectStoreFrame == <<cpc, crows, crun, db_writer, tx_runs, tx_user_rows, tx_photo_rows>>
collectClientFrame == <<cfg_min_interval, cfg_max_sleep, rate_limit_retry_max_sleep_seconds,
                        rate_limit_remaining, rpc, rreq, rsent, rate_limit_hits, resp,
                        rhdrs, rwait, routcome>>

UserPath == "/users/u"
StatisticsPath == "/users/u/statistics"
PhotosPath == "/users/u/photos"

\* total_photos of an account response: a count, or absent / unparseable.
TotalPhotosValues == {<<>>} \cup {<<n>> : n \in {0, 30, 31}}
\* X-Ratelimit-Limit of a response to the account fetch (collect_snapshot reads
\* client.rate_limit right after it).
HourlyLimitHeaders ==
    {[h |-> "absent"], [h |-> "int", v |-> 50], [h |-> "int", v |-> 900],
     [h |-> "int", v |-> 0]}
\* The statistics sub-object of a listed photo: with totals, a non-empty object
\* without totals, or missing (absent, null, empty or no object).
StatsKinds == {"full", "partial", "missing"}
Fractions == {0, 80, 100}

NoProgress == [kind |-> "none"]
NoResult == [kind |-> "none"]

InitCollect ==
    /\ strict \in BOOLEAN
    /\ arg_max_photos \in {<<>>, <<0>>, <<1>>}
    /\ arg_max_pages \in {<<>>, <<0>>, <<1>>}
    /\ rate_limit_fraction \in Fractions
    /\ kpc = "get_user"
    /\ photos_seen = 0
    /\ photo_errors = 0
    /\ photo_rows = <<>>
    /\ api_calls_made = 0
    /\ expected_total_api_calls = <<>>
    /\ progress = NoProgress
    /\ request_count = 0
    /\ reports = <<>>
    /\ performed = <<>>
    /\ account_total_photos = <<>>
    /\ pending = 0
    /\ pages_loaded = 0
    /\ listing_over = FALSE
    /\ missing_ids = {}
    /\ failed_at = "none"
    /\ kresult = NoResult

\* _request_interval_for_hourly_budget with the fraction left out.
RequestIntervalIgnoringFraction(requests_per_hour, fraction) ==
    IF requests_per_hour = <<>> \/ requests_per_hour[1] <= 0 THEN <<>>
    ELSE IF fraction <= 0 THEN <<>>
    ELSE <<SecondsPerHour \div requests_per_hour[1]>>

\* _request_interval_for_hourly_budget (fraction in percent).
RequestIntervalForHourlyBudget(requests_per_hour, fraction) ==
    IF requests_per_hour = <<>> \/ requests_per_hour[1] <= 0 THEN <<>>
    ELSE IF fraction <= 0 THEN <<>>
    ELSE <<(SecondsPerHour * 100) \div (requests_per_hour[1] * fraction)>>

\* _estimate_photo_pages that rounds the page count down.
EstimatePhotoPagesFloor(total_photos, max_photos, max_pages_given, page_size) ==
    IF total_photos = <<>> THEN <<>>
    ELSE IF total_photos[1] <= 0 THEN <<0>>
    ELSE LET constrained_total ==
                 IF max_photos = <<>> THEN total_photos[1]
                 ELSE Min(total_photos[1], Max(0, max_photos[1]))
             page_count == constrained_total \div page_size
         IN IF max_pages_given = <<>> THEN <<page_count>>
            ELSE <<Min(page_count, Max(0, max_pages_given[1]))>>

\* _estimate_photo_pages.
EstimatePhotoPages(total_photos, max_photos, max_pages_given, page_size) ==
    IF total_photos = <<>> THEN <<>>
    ELSE IF total_photos[1] <= 0 THEN <<0>>
    ELSE LET constrained_total ==
                 IF max_photos = <<>> THEN total_photos[1]
                 ELSE Min(total_photos[1], Max(0, max_photos[1]))
             page_count == (constrained_total + page_size - 1) \div page_size
         IN IF max_pages_given = <<>> THEN <<page_count>>
            ELSE <<Min(page_count, Max(0, max_pages_given[1]))>>

\* The event the client hands to its request observer for one performed
\* request: path, status code, the running count and, on success, the decoded
\* body.
ObserverEvent(path, status_code, count, data) ==
    [path |-> path, status_code |-> status_code, request_count |-> count,
     response_data |-> IF status_code < 400 /\ status_code > 0 THEN data
                       ELSE [kind |-> "none"]]

\* An observer that is told of successful requests only.
ReportedOnSuccessOnly(events, event) ==
    IF event.status_code >= 400 \/ event.status_code = 0 THEN events
    ELSE Append(events, event)

\* The client calls the observer once for the request it has performed.
Reported(events, event) == Append(events, event)

\* _handle_request_event: the new api_calls_made and expected_total_api_calls
\* and the dict handed to progress_hook.
HandleRequestEvent(event, made, expected) ==
    LET calls == event.request_count
        estimate ==
            IF /\ expected = <<>>
               /\ event.path = UserPath
               /\ event.status_code < 400
               /\ event.response_data.kind = "dict"
            THEN LET pages == EstimatePhotoPages(event.response_data.total_photos,
                                                 arg_max_photos, arg_max_pages,
                                                 EstimatePerPage)
                 IN IF pages # <<>> THEN <<FixedCalls + pages[1]>> ELSE expected
            ELSE expected
    IN [api_calls_made |-> calls,
        expected_total_api_calls |-> estimate,
        progress |-> [path |-> event.path, status_code |-> event.status_code,
                      completed_calls |-> calls,
                      expected_total_calls |-> estimate,
                      percent_complete |->
                         IF estimate # <<>> /\ estimate[1] > 0
                         THEN <<Percent(calls, estimate[1])>>
                         ELSE <<>>]]

\* The path requested at a position of collect_snapshot.
PathAt(pc) ==
    CASE pc = "get_user" -> UserPath
      [] pc = "get_user_statistics" -> StatisticsPath
      [] OTHER -> PhotosPath

StatusOf(outcome) ==
    CASE outcome = "success" -> 200
      [] outcome = "rate_limited" -> 429
      [] outcome = "http_error" -> 500
      [] OTHER -> 0

\* The page limit of the listing is reached.
PageLimitReached == arg_max_pages # <<>> /\ pages_loaded >= arg_max_pages[1]

\* A failure of an account-level request that lenient mode swallows.
AfterRequestLenient(pc, outcome) ==
    CASE outcome = "rate_limited" -> pc
      [] outcome \in {"http_error", "url_error"} /\ (strict \/ pc = "listing") -> "raised"
      [] pc = "get_user" -> "throttle"
      [] pc = "get_user_statistics" -> "listing"
      [] OTHER -> "listing"

\* The position after a request made at pc has ended with outcome.
AfterRequest(pc, outcome) ==
    CASE outcome = "rate_limited" -> pc
      [] outcome \in {"http_error", "url_error"} -> "raised"
      [] pc = "get_user" -> "throttle"
      [] pc = "get_user_statistics" -> "listing"
      [] OTHER -> "listing"

\* The client performs one request for collect_snapshot: the account fetch,
\* the account-statistics fetch or a page of the listing.  The response's
\* limit header is recorded, the observer _handle_request_event is called, and
\* collect_snapshot goes on, repeats the request after a rate limit, or is left
\* by the client's exception.
PerformRequest ==
    /\ kpc \in {"get_user", "get_user_statistics", "listing"}
    /\ kpc = "listing" => (pending = 0 /\ ~listing_over /\ ~PageLimitReached)
    /\ request_count < MaxRequests
    /\ \E outcome \in {"success", "rate_limited", "http_error", "url_error"},
          lim \in HourlyLimitHeaders, total \in TotalPhotosValues,
          n \in 0..(MaxPhotos - photos_seen) :
         LET path == PathAt(kpc)
             ok == outcome = "success"
             event == ObserverEvent(path, StatusOf(outcome), request_count + 1,
                                    [kind |-> "dict", total_photos |-> total])
             handled == HandleRequestEvent(event, api_calls_made, expected_total_api_calls)
         IN /\ (lim.h # "absent") => (outcome # "url_error" /\ kpc = "get_user")
            /\ (total # <<>>) => (ok /\ kpc = "get_user")
            /\ (n > 0) => (ok /\ kpc = "listing")
            /\ request_count' = request_count + 1
            /\ performed' = Append(performed, [path |-> path, status_code |-> StatusOf(outcome)])
            /\ reports' = Reported(reports, event)
            /\ rate_limit' = UpdatedFrom(lim, rate_limit)
            /\ api_calls_made' = handled.api_calls_made
            /\ expected_total_api_calls' = handled.expected_total_api_calls
            /\ progress' = handled.progress
            /\ account_total_photos' =
                  IF ok /\ kpc = "get_user" THEN total ELSE account_total_photos
            /\ kpc' = AfterRequest(kpc, outcome)
            /\ failed_at' = IF outcome \in {"http_error", "url_error"} THEN kpc ELSE failed_at
            /\ IF ok /\ kpc = "listing"
               THEN /\ pending' = n
                    /\ pages_loaded' = pages_loaded + 1
                    /\ listing_over' = (n = 0)
               ELSE UNCHANGED <<pending, pages_loaded, listing_over>>
    /\ UNCHANGED <<strict, arg_max_photos, arg_max_pages, rate_limit_fraction, photos_seen,
                   photo_errors, photo_rows, missing_ids, kresult>>
    /\ UNCHANGED <<min_request_interval_seconds, collectClientFrame, storeVars>>
    /\ UNCHANGED collectFrame

\* Lines 141-154: the interval of the hourly budget, when there is one, raises
\* the client's minimum interval.
ApplyThrottle ==
    /\ kpc = "throttle"
    /\ LET auto_interval == RequestIntervalForHourlyBudget(rate_limit, rate_limit_fraction)
       IN min_request_interval_seconds' =
             IF auto_interval # <<>>
             THEN Max(0, Max(min_request_interval_seconds, auto_interval[1]))
             ELSE min_request_interval_seconds
    /\ kpc' = "get_user_statistics"
    /\ UNCHANGED <<strict, arg_max_photos, arg_max_pages, rate_limit_fraction, photos_seen,
                   photo_errors, photo_rows, api_calls_made, expected_total_api_calls,
                   progress, request_count, reports, performed, account_total_photos,
                   pending, pages_loaded, listing_over, missing_ids, failed_at, kresult>>
    /\ UNCHANGED <<rate_limit, collectClientFrame, storeVars>>
    /\ UNCHANGED collectFrame

\* The loop body of lines 172-212 with the strict test left out.
NextPhotoNeverRaises ==
    /\ kpc = "listing"
    /\ pending > 0
    /\ \E stats \in StatsKinds, short_page \in BOOLEAN :
         LET photo_id == photos_seen + 1
             limit_reached == arg_max_photos # <<>> /\ photos_seen + 1 >= arg_max_photos[1]
         IN /\ photos_seen' = photos_seen + 1
            /\ IF stats = "missing"
               THEN /\ photo_errors' = photo_errors + 1
                    /\ missing_ids' = missing_ids \cup {photo_id}
               ELSE UNCHANGED <<photo_errors, missing_ids>>
            /\ photo_rows' = Append(photo_rows, photo_id)
            /\ UNCHANGED <<kpc, failed_at>>
            /\ pending' = IF limit_reached THEN 0 ELSE pending - 1
            /\ listing_over' = IF limit_reached THEN TRUE
                               ELSE IF pending = 1 THEN short_page ELSE listing_over
    /\ UNCHANGED <<strict, arg_max_photos, arg_max_pages, rate_limit_fraction,
                   api_calls_made, expected_total_api_calls, progress, request_count,
                   reports, performed, account_total_photos, pages_loaded, kresult>>
    /\ UNCHANGED <<min_request_interval_seconds, rate_limit, collectClientFrame, storeVars>>
    /\ UNCHANGED collectFrame

\* The generator yields the next photo and the loop body of lines 172-212 runs:
\* a photo without statistics is counted in photo_errors and, in strict mode,
\* raises; otherwise (with statistics, or without them in lenient mode) a row is
\* appended to photo_rows.  Then the generator resumes: it ends when the item
\* limit is reached, and after the last photo of a page the listing is over
\* when the page was short.
NextPhoto ==
    /\ kpc = "listing"
    /\ pending > 0
    /\ \E stats \in StatsKinds, short_page \in BOOLEAN :
         LET photo_id == photos_seen + 1
             limit_reached == arg_max_photos # <<>> /\ photos_seen + 1 >= arg_max_photos[1]
         IN /\ photos_seen' = photos_seen + 1
            /\ IF stats = "missing"
               THEN /\ photo_errors' = photo_errors + 1
                    /\ missing_ids' = missing_ids \cup {photo_id}
               ELSE UNCHANGED <<photo_errors, missing_ids>>
            /\ IF stats = "missing" /\ strict
               THEN /\ kpc' = "raised"
                    /\ failed_at' = "photo"
                    /\ UNCHANGED <<photo_rows, pending, listing_over>>
               ELSE /\ photo_rows' = Append(photo_rows, photo_id)
                    /\ UNCHANGED <<kpc, failed_at>>
                    /\ pending' = IF limit_reached THEN 0 ELSE pending - 1
                    /\ listing_over' = IF limit_reached THEN TRUE
                                       ELSE IF pending = 1 THEN short_page ELSE listing_over
    /\ UNCHANGED <<strict, arg_max_photos, arg_max_pages, rate_limit_fraction,
                   api_calls_made, expected_total_api_calls, progress, request_count,
                   reports, performed, account_total_photos, pages_loaded, kresult>>
    /\ UNCHANGED <<min_request_interval_seconds, rate_limit, collectClientFrame, storeVars>>
    /\ UNCHANGED collectFrame

\* The generator is exhausted: the for loop of line 162 ends.
ListingExhausted ==
    /\ kpc = "listing"
    /\ pending = 0
    /\ listing_over \/ PageLimitReached
    /\ kpc' = "persist"
    /\ UNCHANGED <<strict, arg_max_photos, arg_max_pages, rate_limit_fraction, photos_seen,
                   photo_errors, photo_rows, api_calls_made, expected_total_api_calls,
                   progress, request_count, reports, performed, account_total_photos,
                   pending, pages_loaded, listing_over, missing_ids, failed_at, kresult>>
    /\ UNCHANGED <<min_request_interval_seconds, rate_limit, collectClientFrame, storeVars>>
    /\ UNCHANGED collectFrame

\* The persistence of lines 214-265 with no user row for a run without photos.
PersistRunSkipsEmptyRun ==
    /\ kpc = "persist"
    /\ \E committed \in BOOLEAN :
         IF committed
         THEN LET run_id == db_seq + 1
              IN /\ db_runs' = db_runs \cup {RunRow(run_id)}
                 /\ db_user_rows' = IF photo_rows = <<>> THEN db_user_rows
                                    ELSE db_user_rows \cup {UserRow(run_id)}
                 /\ db_photo_rows' = db_photo_rows \cup
                       {PhotoRow(run_id, photo_rows[i]) : i \in 1..Len(photo_rows)}
                 /\ db_seq' = run_id
                 /\ kresult' = [kind |-> "result", run_id |-> run_id,
                                photos_seen |-> photos_seen,
                                photos_saved |-> Len(photo_rows),
                                photo_errors |-> photo_errors,
                                api_calls_made |-> api_calls_made,
                                estimated_total_api_calls |-> expected_total_api_calls]
                 /\ kpc' = "returned"
                 /\ UNCHANGED failed_at
         ELSE /\ kpc' = "raised"
              /\ failed_at' = "persist"
              /\ UNCHANGED <<db_runs, db_user_rows, db_photo_rows, db_seq, kresult>>
    /\ UNCHANGED <<strict, arg_max_photos, arg_max_pages, rate_limit_fraction, photos_seen,
                   photo_errors, photo_rows, api_calls_made, expected_total_api_calls,
                   progress, request_count, reports, performed, account_total_photos,
                   pending, pages_loaded, listing_over, missing_ids>>
    /\ UNCHANGED <<min_request_interval_seconds, rate_limit, collectClientFrame,
                   collectStoreFrame>>
    /\ UNCHANGED collectFrame

\* Lines 214-265: the run is written in one transaction (part 2) and the result
\* is returned, or the transaction fails, is rolled back and the exception
\* leaves collect_snapshot.
PersistRun ==
    /\ kpc = "persist"
    /\ \E committed \in BOOLEAN :
         IF committed
         THEN LET run_id == db_seq + 1
              IN /\ db_runs' = db_runs \cup {RunRow(run_id)}
                 /\ db_user_rows' = db_user_rows \cup {UserRow(run_id)}
                 /\ db_photo_rows' = db_photo_rows \cup
                       {PhotoRow(run_id, photo_rows[i]) : i \in 1..Len(photo_rows)}
                 /\ db_seq' = run_id
                 /\ kresult' = [kind |-> "result", run_id |-> run_id,
                                photos_seen |-> photos_seen,
                                photos_saved |-> Len(photo_rows),
                                photo_errors |-> photo_errors,
                                api_calls_made |-> api_calls_made,
                                estimated_total_api_calls |-> expected_total_api_calls]
                 /\ kpc' = "returned"
                 /\ UNCHANGED failed_at
         ELSE /\ kpc' = "raised"
              /\ failed_at' = "persist"
              /\ UNCHANGED <<db_runs, db_user_rows, db_photo_rows, db_seq, kresult>>
    /\ UNCHANGED <<strict, arg_max_photos, arg_max_pages, rate_limit_fraction, photos_seen,
                   photo_errors, photo_rows, api_calls_made, expected_total_api_calls,
                   progress, request_count, reports, performed, account_total_photos,
                   pending, pages_loaded, listing_over, missing_ids>>
    /\ UNCHANGED <<min_request_interval_seconds, rate_limit, collectClientFrame,
                   collectStoreFrame>>
    /\ UNCHANGED collectFrame

NextCollect ==
    \/ PerformRequest
    \/ ApplyThrottle
    \/ NextPhoto
    \/ ListingExhausted
    \/ PersistRun

\* Nothing of a run is in the store.
StoreEmpty == db_runs = {} /\ db_user_rows = {} /\ db_photo_rows = {}

\* The photo ids of the rows the store holds for a run.
StoredPhotoIds(run_id) == {r.photo_id : r \in {x \in db_photo_rows : x.run_id = run_id}}

\* C13: in lenient mode a photo without statistics does not end the run; the
\* run that is persisted counts each such photo in photo_errors and holds a row
\* for every other photo seen and for none of them.
C13_LenientSkipsFailedPhotos ==
    /\ (~strict /\ missing_ids # {}) => failed_at # "photo"
    /\ (~strict /\ kpc = "returned") =>
          /\ kresult.photo_errors = Cardinality(missing_ids)
          /\ RunRow(kresult.run_id) \in db_runs
          /\ StoredPhotoIds(kresult.run_id) = (1..photos_seen) \ missing_ids

\* C14: in strict mode a photo without statistics ends the run with the error
\* and nothing of the run is in the store, then or later.
C14_StrictAbortsBeforePersistence ==
    (strict /\ missing_ids # {}) =>
       /\ kpc = "raised"
       /\ failed_at = "photo"
       /\ kresult = NoResult
       /\ StoreEmpty

\* Witness of C14: the second photo of a strict run has no statistics; the row
\* assembled for the first was never written.
C14_Witness ==
    /\ strict
    /\ missing_ids = {2}
    /\ photo_rows = <<1>>
    /\ kpc = "raised"

\* C15: a failure of the account fetch or of the account-statistics fetch that
\* is no rate limit ends the run with the error, in strict and in lenient mode,
\* and leaves the store as it was.
C15_AccountFailureAborts ==
    (failed_at \in {"get_user", "get_user_statistics"}) =>
       /\ kpc = "raised"
       /\ kresult = NoResult
       /\ StoreEmpty
       /\ photos_seen = 0

\* Witness of C15: a lenient run whose account-statistics fetch failed with a
\* connection error after a rate-limited try.
C15_Witness ==
    /\ ~strict
    /\ failed_at = "get_user_statistics"
    /\ kpc = "raised"
    /\ Len(performed) = 3
    /\ performed[2].status_code = 429
    /\ performed[3].status_code = 0

\* C16: when the fraction is positive and an hourly limit was observed, the
\* client's minimum interval after the throttle step is the larger of the
\* caller's floor and 3600 / (limit x fraction), so never below the floor;
\* otherwise the interval stays the floor.
C16_ThrottleInterval ==
    [][(kpc = "throttle" /\ kpc' = "get_user_statistics") =>
          LET floor == cfg_min_interval
              applies == /\ rate_limit_fraction > 0
                         /\ rate_limit # <<>>
                         /\ rate_limit[1] > 0
          IN IF applies
             THEN /\ min_request_interval_seconds' =
                        Max(floor, (3600 * 100) \div (rate_limit[1] * rate_limit_fraction))
                  /\ min_request_interval_seconds' >= floor
             ELSE min_request_interval_seconds' = floor]_vars

\* Witness of C16: a budget interval of 5 seconds (limit 900, fraction 0.8)
\* leaves a floor of 7 seconds in place.
C16_Witness ==
    /\ kpc = "get_user_statistics"
    /\ cfg_min_interval = 7
    /\ rate_limit = <<900>>
    /\ rate_limit_fraction = 80
    /\ min_request_interval_seconds = 7

PagesFor(n, page_size) ==
    CHOOSE k \in 0..n : k * page_size >= n /\ (k = 0 \/ (k - 1) * page_size < n)

\* The estimate of C20 for an account of total photos.
ClaimedEstimate(total) ==
    LET capped == IF arg_max_photos = <<>> THEN total ELSE Min(total, arg_max_photos[1])
        pages == PagesFor(capped, 30)
    IN 2 + (IF arg_max_pages = <<>> THEN pages ELSE Min(pages, arg_max_pages[1]))

\* C20: once the account's total photo count is known, the estimate is
\* 2 + ceil(min(total_photos, photo cap) / 30), limited by the page cap; an
\* estimate once made does not change; and the percent reported after a
\* request is min(100, completed_calls / estimate x 100), within 0..100.
C20_EstimateAndPercent ==
    [][/\ expected_total_api_calls # <<>> => expected_total_api_calls' = expected_total_api_calls
       /\ account_total_photos' # <<>>
             => expected_total_api_calls' = <<ClaimedEstimate(account_total_photos'[1])>>
       /\ (expected_total_api_calls' # <<>> /\ request_count' = request_count + 1)
             => /\ progress'.completed_calls = request_count'
                /\ progress'.expected_total_calls = expected_total_api_calls'
                /\ progress'.percent_complete =
                      <<Min(100, (request_count' * 100) \div expected_total_api_calls'[1])>>
                /\ progress'.percent_complete[1] \in 0..100]_vars

\* Witness of C20: an account of 31 photos gives an estimate of 4 calls, and the
\* fifth request is reported at 100 percent.
C20_Witness ==
    /\ account_total_photos = <<31>>
    /\ arg_max_photos = <<>>
    /\ arg_max_pages = <<>>
    /\ expected_total_api_calls = <<4>>
    /\ progress # NoProgress
    /\ progress.completed_calls = 5
    /\ progress.percent_complete = <<100>>

\* C24: a run for an account with total_photos 0 whose listing yields no photo
\* is not ended by the photo loop; when it returns, the store holds exactly one
\* run header and one user row of the run and no photo row, and the result
\* counts no photo seen, none saved and no photo error.
C24_EmptyAccountRun ==
    (account_total_photos = <<0>> /\ photos_seen = 0)
       => /\ failed_at # "photo"
          /\ photo_errors = 0
          /\ kpc = "returned"
               => /\ kresult.photos_seen = 0
                  /\ kresult.photos_saved = 0
                  /\ kresult.photo_errors = 0
                  /\ db_runs = {RunRow(kresult.run_id)}
                  /\ db_user_rows = {UserRow(kresult.run_id)}
                  /\ db_photo_rows = {}

\* A run of an account with total_photos 0 has returned after one empty page
\* of the listing.
C24_Witness ==
    /\ kpc = "returned"
    /\ account_total_photos = <<0>>
    /\ pages_loaded = 1
    /\ photos_seen = 0
    /\ db_runs # {}

(***************************************************************************)
(* Part 6b: collect_snapshot against a server whose listing agrees with    *)
(* the account's total_photos: page p of the listing holds the photos       *)
(* 30 (p - 1) + 1 .. 30 p of the total, every photo has statistics, and no  *)
(* request is rate-limited or fails.  A page of the listing and the loop    *)
(* bodies of its photos are one step.                                       *)
(***************************************************************************)

\* Bound of the runs against a consistent server.
MaxTotalPhotos == 61   \* total_photos of the account

\* Program constant: per_page of the listing collect_snapshot asks for.
ListingPerPage == 30

\* The caps a run is given.
MaxPhotosArgs == {<<>>, <<0>>, <<1>>, <<30>>, <<31>>}
MaxPagesArgs == {<<>>, <<0>>, <<1>>, <<2>>}

InitConsistentRun ==
    /\ strict \in BOOLEAN
    /\ arg_max_photos \in MaxPhotosArgs
    /\ arg_max_pages \in MaxPagesArgs
    /\ rate_limit_fraction = 80
    /\ kpc = "get_user"
    /\ photos_seen = 0
    /\ photo_errors = 0
    /\ photo_rows = <<>>
    /\ api_calls_made = 0
    /\ expected_total_api_calls = <<>>
    /\ progress = NoProgress
    /\ request_count = 0
    /\ reports = <<>>
    /\ performed = <<>>
    /\ account_total_photos \in {<<n>> : n \in 0..MaxTotalPhotos}
    /\ pending = 0
    /\ pages_loaded = 0
    /\ listing_over = FALSE
    /\ missing_ids = {}
    /\ failed_at = "none"
    /\ kresult = NoResult

\* The photos on page page_number of a listing of total photos.
PhotosOnPage(total, page_number) ==
    Min(ListingPerPage, Max(0, total - ListingPerPage * (page_number - 1)))

\* The photos iter_user_photos yields of a page of n photos when yielded_before
\* were yielded of earlier pages: the item limit is tested after each yield.
YieldedOfPage(n, yielded_before, max_items_given) ==
    IF max_items_given = <<>> THEN n
    ELSE Min(n, Max(1, max_items_given[1] - yielded_before))

\* One request of the run succeeds: the account fetch, the account-statistics
\* fetch, or the next page of the listing with the loop bodies of the photos
\* the generator yields of it.
ConsistentRequest ==
    /\ kpc \in {"get_user", "get_user_statistics", "listing"}
    /\ kpc = "listing" => (~listing_over /\ ~PageLimitReached)
    /\ LET path == PathAt(kpc)
           event == ObserverEvent(path, StatusOf("success"), request_count + 1,
                                  [kind |-> "dict", total_photos |-> account_total_photos])
           handled == HandleRequestEvent(event, api_calls_made, expected_total_api_calls)
           n == PhotosOnPage(account_total_photos[1], pages_loaded + 1)
           yielded == YieldedOfPage(n, photos_seen, arg_max_photos)
           limit_reached == arg_max_photos # <<>> /\ photos_seen + yielded >= arg_max_photos[1]
       IN /\ request_count' = request_count + 1
          /\ performed' = Append(performed, [path |-> path, status_code |-> StatusOf("success")])
          /\ reports' = Reported(reports, event)
          /\ api_calls_made' = handled.api_calls_made
          /\ expected_total_api_calls' = handled.expected_total_api_calls
          /\ progress' = handled.progress
          /\ kpc' = AfterRequest(kpc, "success")
          /\ IF kpc = "listing"
             THEN /\ pages_loaded' = pages_loaded + 1
                  /\ photos_seen' = photos_seen + yielded
                  /\ photo_rows' = photo_rows \o
                        [i \in 1..yielded |-> photos_seen + i]
                  /\ listing_over' = (n = 0 \/ limit_reached \/ n < ListingPerPage)
             ELSE UNCHANGED <<pages_loaded, photos_seen, photo_rows, listing_over>>
    /\ UNCHANGED <<strict, arg_max_photos, arg_max_pages, rate_limit_fraction,
                   photo_errors, account_total_photos, pending, missing_ids, failed_at,
                   kresult>>
    /\ UNCHANGED <<min_request_interval_seconds, rate_limit, collectClientFrame, storeVars>>
    /\ UNCHANGED collectFrame

NextConsistentRun ==
    \/ ConsistentRequest
    \/ ApplyThrottle
    \/ ListingExhausted
    \/ PersistRun

\* C28: once the estimate is known, the request count of every progress report
\* and of the result summary is at most the estimated total of calls.
C28_CallsWithinEstimate ==
    /\ (progress # NoProgress /\ progress.expected_total_calls # <<>>)
          => progress.completed_calls <= progress.expected_total_calls[1]
    /\ (kresult # NoResult /\ kresult.estimated_total_api_calls # <<>>)
          => kresult.api_calls_made <= kresult.estimated_total_api_calls[1]

(***************************************************************************)
(* Part 7: the latest-vs-previous query over the committed snapshots.      *)
(* A nullable INTEGER is <<>> (NULL) or <<n>>.                             *)
(***************************************************************************)

\* Bound of the view model.
MaxViewRuns == 2    \* runs committed

viewFrame == <<dashVars, storeVars, clientVars, pagerVars, paceVars, collectVars,
               schemaVars, callbackVars>>

ViewPhotoIds == {1, 2}
\* collected_at values: runs may share one, and a run committed later may carry
\* an earlier one (it is taken when collect_snapshot starts).
CollectedAts == {1, 2}
\* downloads_total and views_total of a row: _as_int gives NULL for a total that
\* is missing, as in the row of a photo without statistics.
TotalsPairs ==
    {[downloads_total |-> <<>>, views_total |-> <<>>],
     [downloads_total |-> <<100>>, views_total |-> <<100>>],
     [downloads_total |-> <<140>>, views_total |-> <<100>>],
     [downloads_total |-> <<100>>, views_total |-> <<>>]}

InitView ==
    /\ snap_runs = {}
    /\ snap_rows = {}
    /\ latest_view = {}

\* A run is committed: its header and one row for each photo it lists, with
\* row ids in insertion order.
CommitSnapshot ==
    /\ Cardinality(snap_runs) < MaxViewRuns
    /\ \E at \in CollectedAts, listed \in SUBSET ViewPhotoIds :
         \E totals \in [listed -> TotalsPairs] :
            LET run_id == Cardinality(snap_runs) + 1
                first_id == Cardinality(snap_rows)
                position(photo) == Cardinality({q \in listed : q <= photo})
            IN /\ snap_runs' = snap_runs \cup {[id |-> run_id, collected_at |-> at]}
               /\ snap_rows' = snap_rows \cup
                     {[id |-> first_id + position(photo), run_id |-> run_id,
                       photo_id |-> photo,
                       downloads_total |-> totals[photo].downloads_total,
                       views_total |-> totals[photo].views_total] : photo \in listed}
    /\ UNCHANGED latest_view
    /\ UNCHANGED viewFrame

\* FROM photo_stats_snapshots p JOIN collection_runs r ON r.id = p.run_id.
Joined(runs, rows) ==
    {[id |-> p.id, photo_id |-> p.photo_id, downloads_total |-> p.downloads_total,
      views_total |-> p.views_total, collected_at |-> r.collected_at] :
        <<p, r>> \in {pr \in rows \X runs : pr[2].id = pr[1].run_id}}

\* ROW_NUMBER() OVER (PARTITION BY photo_id ORDER BY collected_at DESC, id DESC).
RowNumber(x, joined) ==
    1 + Cardinality({y \in joined :
                        /\ y.photo_id = x.photo_id
                        /\ \/ y.collected_at > x.collected_at
                           \/ y.collected_at = x.collected_at /\ y.id > x.id})

\* COALESCE(a, b).
Coalesce(a, b) == IF a # <<>> THEN a ELSE b

\* a - b of SQL: NULL when either is NULL.
Minus(a, b) == IF a = <<>> \/ b = <<>> THEN <<>> ELSE <<a[1] - b[1]>>

\* latest - COALESCE(previous, latest); previous is NULL when the LEFT JOIN
\* finds no previous row.
Delta(latest_total, previous_total) ==
    Minus(latest_total, Coalesce(previous_total, latest_total))

\* PHOTO_LATEST_QUERY (the dashboard's PHOTO_LATEST_SQL has the same rows).
PhotoLatest(runs, rows) ==
    LET ranked == Joined(runs, rows)
        latest == {x \in ranked : RowNumber(x, ranked) = 1}
        previous == {x \in ranked : RowNumber(x, ranked) = 2}
        PreviousOf(l) == {x \in previous : x.photo_id = l.photo_id}
        Row(l, prev_downloads, prev_views, prev_at) ==
            [photo_id |-> l.photo_id,
             downloads_total |-> l.downloads_total,
             views_total |-> l.views_total,
             latest_collected_at |-> <<l.collected_at>>,
             previous_collected_at |-> prev_at,
             downloads_delta_since_previous |-> Delta(l.downloads_total, prev_downloads),
             views_delta_since_previous |-> Delta(l.views_total, prev_views)]
    IN UNION {IF PreviousOf(l) = {}
              THEN {Row(l, <<>>, <<>>, <<>>)}
              ELSE {Row(l, x.downloads_total, x.views_total, <<x.collected_at>>) :
                      x \in PreviousOf(l)} : l \in latest}

\* A reader runs the query.
QueryPhotoLatest ==
    /\ latest_view' = PhotoLatest(snap_runs, snap_rows)
    /\ UNCHANGED <<snap_runs, snap_rows>>
    /\ UNCHANGED viewFrame

NextView ==
    \/ CommitSnapshot
    \/ QueryPhotoLatest

\* The rows of a photo, and those among them no other row of the photo is
\* later than (by collected_at, then by row id).
RowsOfPhoto(photo) == {x \in Joined(snap_runs, snap_rows) : x.photo_id = photo}
Later(y, x) ==
    \/ y.collected_at > x.collected_at
    \/ y.collected_at = x.collected_at /\ y.id > x.id
LatestRowOf(S) == CHOOSE x \in S : \A y \in S : ~Later(y, x)

\* The view is that of the present store.
ViewIsCurrent == latest_view = PhotoLatest(snap_runs, snap_rows)

\* C18: the view has one row for every photo in the store; its deltas are the
\* latest total minus the total of the photo's previous run, or minus the
\* latest total itself when there is no previous run; a photo of a single run
\* has delta 0, not NULL, for downloads and for views; downloads of 100 then
\* 140 give +40.
C18_DeltaSincePrevious ==
    ViewIsCurrent =>
       \A photo \in {x.photo_id : x \in snap_rows} :
          LET mine == RowsOfPhoto(photo)
              l == LatestRowOf(mine)
              shown == {v \in latest_view : v.photo_id = photo}
          IN /\ Cardinality(shown) = 1
             /\ \A v \in shown :
                   IF Cardinality(mine) = 1
                   THEN /\ v.downloads_delta_since_previous = <<0>>
                        /\ v.views_delta_since_previous = <<0>>
                   ELSE LET prev == LatestRowOf(mine \ {l})
                        IN /\ (l.downloads_total # <<>> /\ prev.downloads_total # <<>>)
                                => v.downloads_delta_since_previous =
                                      <<l.downloads_total[1] - prev.downloads_total[1]>>
                           /\ (l.downloads_total = <<140>> /\ prev.downloads_total = <<100>>)
                                => v.downloads_delta_since_previous = <<40>>
                           /\ (l.views_total # <<>> /\ prev.views_total # <<>>)
                                => v.views_delta_since_previous =
                                      <<l.views_total[1] - prev.views_total[1]>>

(***************************************************************************)
(* Part 8: schema setup.                                                   *)
(* init_db hands a script of six CREATE ... IF NOT EXISTS statements to     *)
(* executescript, which runs them in order and stops at the first that      *)
(* fails.  Every caller runs it on a connection it has just opened, outside *)
(* any transaction of its own.  A table that does not exist holds no rows.  *)
(***************************************************************************)

\* Bound of the schema model.
MaxInitDbCalls == 3   \* calls of init_db in one behaviour

schemaFrame == <<dashVars, clientVars, pagerVars, paceVars, collectVars, viewVars,
                 callbackVars>>

\* What init_db leaves alone of the store: the collectors' positions, the write
\* lock and the rows of the open write transaction.
schemaStoreFrame == <<cpc, crows, crun, db_seq, db_writer, tx_runs, tx_user_rows,
                      tx_photo_rows>>

\* The statements of the script, in order; an index names the table it is on.
InitDbScript ==
    << [kind |-> "table", name |-> "collection_runs", on |-> "",
        if_not_exists |-> TRUE],
       [kind |-> "table", name |-> "user_stats_snapshots", on |-> "",
        if_not_exists |-> TRUE],
       [kind |-> "table", name |-> "photo_stats_snapshots", on |-> "",
        if_not_exists |-> TRUE],
       [kind |-> "index", name |-> "idx_runs_collected_at", on |-> "collection_runs",
        if_not_exists |-> TRUE],
       [kind |-> "index", name |-> "idx_photo_snapshots_photo_id",
        on |-> "photo_stats_snapshots", if_not_exists |-> TRUE],
       [kind |-> "index", name |-> "idx_photo_snapshots_run_id",
        on |-> "photo_stats_snapshots", if_not_exists |-> TRUE] >>

SchemaObjects == {InitDbScript[i].name : i \in DOMAIN InitDbScript}

\* The schemas a store file can have: an index exists only with its table.
Schemas ==
    {S \in SUBSET SchemaObjects :
        \A i \in DOMAIN InitDbScript :
            (InitDbScript[i].kind = "index" /\ InitDbScript[i].name \in S)
                => InitDbScript[i].on \in S}

\* A store whose schema is complete.
InitSchema ==
    /\ db_schema = SchemaObjects
    /\ init_db_calls = 0
    /\ init_db_raised = FALSE

\* The store as a statement finds it and leaves it.
StoreState(schema, runs, user_rows, photo_snapshots, raised) ==
    [schema |-> schema, runs |-> runs, user_rows |-> user_rows,
     photo_rows |-> photo_snapshots, raised |-> raised]

\* A created table is empty.
WithTable(st, name) ==
    [st EXCEPT !.schema = @ \cup {name},
               !.runs = IF name = "collection_runs" THEN {} ELSE @,
               !.user_rows = IF name = "user_stats_snapshots" THEN {} ELSE @,
               !.photo_rows = IF name = "photo_stats_snapshots" THEN {} ELSE @]

\* CREATE without heed of IF NOT EXISTS: an object that exists is an error.
ExecuteCreateAlways(stmt, st) ==
    IF st.raised THEN st
    ELSE IF stmt.name \in st.schema THEN [st EXCEPT !.raised = TRUE]
    ELSE IF stmt.kind = "index"
         THEN IF stmt.on \in st.schema
              THEN [st EXCEPT !.schema = @ \cup {stmt.name}]
              ELSE [st EXCEPT !.raised = TRUE]
    ELSE WithTable(st, stmt.name)

\* One CREATE statement: with IF NOT EXISTS an object that exists is left as it
\* is; without it, it is an error, as is an index on a table that is missing.
\* After an error the rest of the script is not run.
Execute(stmt, st) ==
    IF st.raised THEN st
    ELSE IF stmt.name \in st.schema
         THEN IF stmt.if_not_exists THEN st ELSE [st EXCEPT !.raised = TRUE]
    ELSE IF stmt.kind = "index"
         THEN IF stmt.on \in st.schema
              THEN [st EXCEPT !.schema = @ \cup {stmt.name}]
              ELSE [st EXCEPT !.raised = TRUE]
    ELSE WithTable(st, stmt.name)

\* executescript: the statements in order.
RECURSIVE ExecuteScript(_, _)
ExecuteScript(script, st) ==
    IF script = <<>> THEN st
    ELSE ExecuteScript(Tail(script), Execute(Head(script), st))

\* init_db on a connection just opened by a collector, the dashboard or the
\* command line.
InitDb ==
    /\ init_db_calls < MaxInitDbCalls
    /\ LET after == ExecuteScript(InitDbScript,
                        StoreState(db_schema, db_runs, db_user_rows, db_photo_rows,
                                   FALSE))
       IN /\ db_schema' = after.schema
          /\ db_runs' = after.runs
          /\ db_user_rows' = after.user_rows
          /\ db_photo_rows' = after.photo_rows
          /\ init_db_raised' = (init_db_raised \/ after.raised)
    /\ init_db_calls' = init_db_calls + 1
    /\ UNCHANGED schemaStoreFrame
    /\ UNCHANGED schemaFrame

\* A step of a collect_snapshot transaction: collect_snapshot has run init_db
\* before its first insert.
SnapshotStep ==
    /\ db_schema = SchemaObjects
    /\ NextStore

NextSchema ==
    \/ InitDb
    \/ SnapshotStep

\* C19: a call of init_db against a store whose schema is complete raises no
\* error and leaves every row of collection_runs, user_stats_snapshots and
\* photo_stats_snapshots as it was, however many calls went before.
C19_InitDbIdempotent ==
    [][(db_schema = SchemaObjects /\ ~init_db_raised /\ init_db_calls' # init_db_calls)
          => /\ ~init_db_raised'
             /\ db_schema' = db_schema
             /\ db_runs' = db_runs
             /\ db_user_rows' = db_user_rows
             /\ db_photo_rows' = db_photo_rows]_vars

\* init_db has run twice or more over a store that holds a run with its user
\* snapshot and a photo row.
C19_Witness ==
    /\ init_db_calls >= 2
    /\ db_schema = SchemaObjects
    /\ ~init_db_raised
    /\ db_runs # {}
    /\ db_user_rows # {}
    /\ db_photo_rows # {}

(***************************************************************************)
(* Part 9: the progress callback and the writers of the shared state.      *)
(* update_collection_progress runs on the server's request threads; the     *)
(* worker thread and _start_collection write collection_state under         *)
(* state_lock.  dict.update writes its items one after another, in the      *)
(* order they are given.  The worker slot and its guard are those of part   *)
(* 1; here one Thread object exists at a time.                              *)
(***************************************************************************)

\* Bounds of the callback model.
MaxCollections == 2     \* Thread objects created in one behaviour
MaxWorkerCalls == 1     \* requests one collection reports through the hook

\* The request threads and the worker thread.
CallbackThreads == {1, 2}
WorkerThread == 3

\* ctx.triggered_id: the collect button, the interval, or None (the initial
\* call, or ctx raising).
TriggeredIds == {"collect-button", "progress-interval", "none"}
\* The value of the collection-refresh-token store the browser sends.
RefreshTokenStates == {<<>>, <<1>>}

NoOutputs == [kind |-> "none"]

callbackFrame == <<hpc, hres, hworker, worker_ref, wpc, wcalls, wexpected, wrun,
                   env_access_key, db_run_count, storeVars, clientVars, pagerVars,
                   paceVars, collectVars, viewVars, schemaVars>>

InitCallback ==
    /\ state_lock = 0
    /\ update_left = <<>>
    /\ between_updates = InitialState
    /\ cbpc = [h \in CallbackThreads |-> "idle"]
    /\ triggered_id = [h \in CallbackThreads |-> "none"]
    /\ current_refresh_token = [h \in CallbackThreads |-> <<>>]
    /\ action_status = [h \in CallbackThreads |-> None]
    /\ returned_state = [h \in CallbackThreads |-> <<>>]
    /\ outputs = [h \in CallbackThreads |-> NoOutputs]
    /\ worker_thread = "none"
    /\ worker_step = "none"
    /\ worker_calls = 0
    /\ collections = 0

\* The items of the update of _start_collection.
StartItems ==
    << <<"phase", "running">>, <<"message", "Collection started.">>,
       <<"completed_calls", 0>>, <<"expected_total_calls", 0>>,
       <<"percent_complete", 0>> >>

\* The items of the update of _progress_hook, for an estimate of 2 + 1 calls.
ProgressItems(calls) ==
    << <<"phase", "running">>, <<"message", "Collecting data.">>,
       <<"completed_calls", calls>>, <<"expected_total_calls", 2 + 1>>,
       <<"percent_complete", Percent(calls, 2 + 1)>> >>

\* The items of the update after a successful export; refresh_token is read
\* under the lock.
DoneItems(calls, st) ==
    << <<"phase", "done">>, <<"message", "Collection complete.">>,
       <<"completed_calls", calls>>, <<"percent_complete", 100>>,
       <<"refresh_token", st.refresh_token + 1>> >>

\* The items of the update of the except branch.
ErrorItems ==
    << <<"phase", "error">>, <<"message", "Collection failed.">> >>

\* The test of update_collection_progress that leads to _start_collection, for
\* any input that triggered.
StartsCollectionOnAnyInput(triggered) == triggered # "none"

\* The test of update_collection_progress that leads to _start_collection.
StartsCollection(triggered) == triggered = "collect-button"

\* update_collection_progress is invoked.
CallbackEnter(h) ==
    /\ cbpc[h] = "idle"
    /\ \E triggered \in TriggeredIds, token \in RefreshTokenStates :
         /\ triggered_id' = [triggered_id EXCEPT ![h] = triggered]
         /\ current_refresh_token' = [current_refresh_token EXCEPT ![h] = token]
         /\ cbpc' = [cbpc EXCEPT ![h] =
                        IF StartsCollection(triggered) THEN "start" ELSE "snapshot"]
    /\ UNCHANGED <<state_lock, update_left, between_updates, action_status,
                   returned_state, outputs, worker_thread, worker_step, worker_calls,
                   collections, collection_state>>
    /\ UNCHANGED callbackFrame

\* _start_collection takes state_lock and tests the slot: with a live worker
\* it returns at once, else it begins the update of the state.
StartAcquire(h) ==
    /\ cbpc[h] = "start"
    /\ state_lock = 0
    /\ IF worker_thread = "alive"
       THEN /\ action_status' = [action_status EXCEPT ![h] = "Collection is already running."]
            /\ cbpc' = [cbpc EXCEPT ![h] = "snapshot"]
            /\ UNCHANGED <<state_lock, update_left>>
       ELSE /\ worker_thread \in {"none", "ended"}
            /\ collections < MaxCollections
            /\ state_lock' = h
            /\ update_left' = StartItems
            /\ cbpc' = [cbpc EXCEPT ![h] = "start_update"]
            /\ UNCHANGED action_status
    /\ UNCHANGED <<between_updates, triggered_id, current_refresh_token, returned_state,
                   outputs, worker_thread, worker_step, worker_calls, collections,
                   collection_state>>
    /\ UNCHANGED callbackFrame

\* collection_state.update(...) writes its next item; the holder of the lock is
\* the writer.
UpdateItem ==
    /\ state_lock # 0
    /\ update_left # <<>>
    /\ collection_state' =
          [collection_state EXCEPT ![Head(update_left)[1]] = Head(update_left)[2]]
    /\ update_left' = Tail(update_left)
    /\ UNCHANGED <<state_lock, between_updates, cbpc, triggered_id, current_refresh_token,
                   action_status, returned_state, outputs, worker_thread, worker_step,
                   worker_calls, collections>>
    /\ UNCHANGED callbackFrame

\* _start_collection after its update: the Thread object is created and stored
\* in the slot, and state_lock is released.
StartRelease(h) ==
    /\ cbpc[h] = "start_update"
    /\ state_lock = h
    /\ update_left = <<>>
    /\ worker_thread' = "created"
    /\ worker_step' = "none"
    /\ worker_calls' = 0
    /\ collections' = collections + 1
    /\ state_lock' = 0
    /\ between_updates' = collection_state
    /\ cbpc' = [cbpc EXCEPT ![h] = "start_thread"]
    /\ UNCHANGED <<update_left, triggered_id, current_refresh_token, action_status,
                   returned_state, outputs, collection_state>>
    /\ UNCHANGED callbackFrame

\* worker.start() and the return of _start_collection.
StartThread(h) ==
    /\ cbpc[h] = "start_thread"
    /\ worker_thread' = "alive"
    /\ worker_step' = "collecting"
    /\ action_status' = [action_status EXCEPT ![h] = "Collection started."]
    /\ cbpc' = [cbpc EXCEPT ![h] = "snapshot"]
    /\ UNCHANGED <<state_lock, update_left, between_updates, triggered_id,
                   current_refresh_token, returned_state, outputs, worker_calls,
                   collections, collection_state>>
    /\ UNCHANGED callbackFrame

\* _snapshot_collection_state called with no heed of state_lock.
SnapshotCollectionStateUnlocked(h) ==
    /\ cbpc[h] = "snapshot"
    /\ returned_state' = [returned_state EXCEPT ![h] = <<collection_state>>]
    /\ cbpc' = [cbpc EXCEPT ![h] = "format"]
    /\ UNCHANGED <<state_lock, update_left, between_updates, triggered_id,
                   current_refresh_token, action_status, outputs, worker_thread,
                   worker_step, worker_calls, collections, collection_state>>
    /\ UNCHANGED callbackFrame

\* _snapshot_collection_state: under state_lock, dict(collection_state); the
\* lock is taken and released within the call.
SnapshotCollectionState(h) ==
    /\ cbpc[h] = "snapshot"
    /\ state_lock = 0
    /\ returned_state' = [returned_state EXCEPT ![h] = <<collection_state>>]
    /\ cbpc' = [cbpc EXCEPT ![h] = "format"]
    /\ UNCHANGED <<state_lock, update_left, between_updates, triggered_id,
                   current_refresh_token, action_status, outputs, worker_thread,
                   worker_step, worker_calls, collections, collection_state>>
    /\ UNCHANGED callbackFrame

\* int(current_refresh_token or 0).
IntOrZero(token) == IF token = <<>> THEN 0 ELSE token[1]

\* The outputs update_collection_progress computes from the snapshot; the
\* refresh token is sent only when it grows (no_update otherwise).
Outputs(status, state, token) ==
    [kind |-> "outputs",
     action_status |-> IF status = None THEN state.message ELSE status,
     button_disabled |-> (state.phase = "running"),
     percent_complete |-> Max(0, Min(100, state.percent_complete)),
     refresh_token_output |->
        IF Max(IntOrZero(token), state.refresh_token) = IntOrZero(token)
        THEN <<>>
        ELSE <<Max(IntOrZero(token), state.refresh_token)>>]

\* update_collection_progress formats the snapshot.
FormatOutputs(h) ==
    /\ cbpc[h] = "format"
    /\ outputs' = [outputs EXCEPT ![h] =
                      Outputs(action_status[h], returned_state[h][1],
                              current_refresh_token[h])]
    /\ cbpc' = [cbpc EXCEPT ![h] = "return"]
    /\ UNCHANGED <<state_lock, update_left, between_updates, triggered_id,
                   current_refresh_token, action_status, returned_state, worker_thread,
                   worker_step, worker_calls, collections, collection_state>>
    /\ UNCHANGED callbackFrame

\* update_collection_progress returns: the outputs go to the browser and the
\* locals of the invocation are gone.
CallbackReturn(h) ==
    /\ cbpc[h] = "return"
    /\ cbpc' = [cbpc EXCEPT ![h] = "idle"]
    /\ triggered_id' = [triggered_id EXCEPT ![h] = "none"]
    /\ current_refresh_token' = [current_refresh_token EXCEPT ![h] = <<>>]
    /\ action_status' = [action_status EXCEPT ![h] = None]
    /\ returned_state' = [returned_state EXCEPT ![h] = <<>>]
    /\ outputs' = [outputs EXCEPT ![h] = NoOutputs]
    /\ UNCHANGED <<state_lock, update_left, between_updates, worker_thread,
                   worker_step, worker_calls, collections, collection_state>>
    /\ UNCHANGED callbackFrame

\* The worker takes state_lock for an update: that of the progress hook after a
\* request, that of a successful end, or that of the except branch.
WorkerAcquire ==
    /\ worker_thread = "alive"
    /\ worker_step = "collecting"
    /\ state_lock = 0
    /\ state_lock' = WorkerThread
    /\ \/ /\ worker_calls < MaxWorkerCalls
          /\ worker_calls' = worker_calls + 1
          /\ update_left' = ProgressItems(worker_calls + 1)
          /\ worker_step' = "progress_update"
       \/ /\ update_left' = DoneItems(worker_calls, collection_state)
          /\ worker_step' = "last_update"
          /\ UNCHANGED worker_calls
       \/ /\ update_left' = ErrorItems
          /\ worker_step' = "last_update"
          /\ UNCHANGED worker_calls
    /\ UNCHANGED <<between_updates, cbpc, triggered_id, current_refresh_token,
                   action_status, returned_state, outputs, worker_thread, collections,
                   collection_state>>
    /\ UNCHANGED callbackFrame

\* The worker releases state_lock after its update.
WorkerRelease ==
    /\ state_lock = WorkerThread
    /\ update_left = <<>>
    /\ worker_step \in {"progress_update", "last_update"}
    /\ state_lock' = 0
    /\ between_updates' = collection_state
    /\ worker_step' = IF worker_step = "last_update" THEN "finally" ELSE "collecting"
    /\ UNCHANGED <<update_left, cbpc, triggered_id, current_refresh_token, action_status,
                   returned_state, outputs, worker_thread, worker_calls, collections,
                   collection_state>>
    /\ UNCHANGED callbackFrame

\* The finally block: the slot is emptied under state_lock and the thread ends.
WorkerEnd ==
    /\ worker_thread = "alive"
    /\ worker_step = "finally"
    /\ state_lock = 0
    /\ worker_thread' = "ended"
    /\ worker_step' = "none"
    /\ UNCHANGED <<state_lock, update_left, between_updates, cbpc, triggered_id,
                   current_refresh_token, action_status, returned_state, outputs,
                   worker_calls, collections, collection_state>>
    /\ UNCHANGED callbackFrame

NextCallback ==
    \/ \E h \in CallbackThreads : CallbackEnter(h)
    \/ \E h \in CallbackThreads : StartAcquire(h)
    \/ UpdateItem
    \/ \E h \in CallbackThreads : StartRelease(h)
    \/ \E h \in CallbackThreads : StartThread(h)
    \/ \E h \in CallbackThreads : SnapshotCollectionState(h)
    \/ \E h \in CallbackThreads : FormatOutputs(h)
    \/ \E h \in CallbackThreads : CallbackReturn(h)
    \/ WorkerAcquire
    \/ WorkerRelease
    \/ WorkerEnd

\* C22: the dict _snapshot_collection_state returns is collection_state as it
\* stood between two whole updates, never a mix of the fields before and after
\* one update, and it is a copy: while the callback formats it, the updates of
\* the writers leave it as it was returned.
C22_SnapshotIsWholeCopy ==
    [][\A h \in CallbackThreads :
         /\ (cbpc[h] = "snapshot" /\ cbpc'[h] = "format")
               => returned_state'[h] = <<between_updates>>
         /\ (cbpc[h] = "format" /\ cbpc'[h] = "format")
               => returned_state'[h] = returned_state[h]]_vars

\* A callback holds a snapshot that an update begun after the read has left
\* behind: the writer is in the middle of its update.
C22_Witness ==
    \E h \in CallbackThreads :
       /\ cbpc[h] = "format"
       /\ returned_state[h] # <<>>
       /\ state_lock # 0
       /\ update_left # <<>>
       /\ returned_state[h] # <<collection_state>>
       /\ returned_state[h] # <<between_updates>>

\* A step of the invocation of update_collection_progress on thread h.
CallbackStep(h) == cbpc'[h] # cbpc[h]

\* C23: an invocation of the progress callback that the interval triggered (or
\* nothing did) returns its outputs, creates and starts no worker thread and
\* leaves the shared collection state as it is; a Thread object is created only
\* by an invocation the collect button triggered.
C23_PollChangesNothing ==
    [][/\ \A h \in CallbackThreads :
            (CallbackStep(h) /\ triggered_id[h] # "collect-button"
                             /\ triggered_id'[h] # "collect-button")
               => /\ collection_state' = collection_state
                  /\ worker_thread' = worker_thread
                  /\ collections' = collections
                  /\ state_lock' = state_lock
                  /\ cbpc'[h] \in {"snapshot", "format", "return", "idle"}
                  /\ cbpc'[h] = "return" => outputs'[h].kind = "outputs"
       /\ collections' # collections
            => \E h \in CallbackThreads :
                  CallbackStep(h) /\ triggered_id[h] = "collect-button"]_vars

\* A poll has returned its outputs while a collection is running.
C23_Witness ==
    \E h \in CallbackThreads :
       /\ triggered_id[h] = "progress-interval"
       /\ cbpc[h] = "return"
       /\ outputs[h].kind = "outputs"
       /\ outputs[h].button_disabled
       /\ worker_thread = "alive"

(***************************************************************************)
(* Specifications.                                                         *)
(***************************************************************************)

\* A collect_snapshot invocation before its first step.
CollectAtRest ==
    /\ InitCollect
    /\ strict
    /\ arg_max_photos = <<>>
    /\ arg_max_pages = <<>>
    /\ rate_limit_fraction = 80

\* Parts 5 and later before their first step.
LaterPartsAtRest ==
    /\ InitPace
    /\ CollectAtRest
    /\ InitView
    /\ InitSchema
    /\ InitCallback

\* The dashboard, the store and the pager before their first step.
EarlierPartsAtRest ==
    /\ InitDash
    /\ env_access_key
    /\ InitStore
    /\ InitPager
    /\ per_page_arg = 2
    /\ max_pages = <<>>
    /\ max_items = <<>>

\* The dashboard process, with the other parts at rest.
DashInit ==
    /\ InitDash
    /\ InitStore
    /\ InitClient
    /\ cfg_min_interval = 0
    /\ cfg_max_sleep = DefaultMaxSleep
    /\ InitPager
    /\ per_page_arg = 2
    /\ max_pages = <<>>
    /\ max_items = <<>>
    /\ LaterPartsAtRest

SpecDash == DashInit /\ [][NextDash]_vars

\* Concurrent collect_snapshot transactions, with the other parts at rest.
StoreInit ==
    /\ InitStore
    /\ InitDash
    /\ env_access_key
    /\ InitClient
    /\ cfg_min_interval = 0
    /\ cfg_max_sleep = DefaultMaxSleep
    /\ InitPager
    /\ per_page_arg = 2
    /\ max_pages = <<>>
    /\ max_items = <<>>
    /\ LaterPartsAtRest

SpecStore == StoreInit /\ [][NextStore]_vars

\* One client serving one request after another, with the other parts at rest.
ClientInit ==
    /\ InitClient
    /\ InitDash
    /\ env_access_key
    /\ InitStore
    /\ InitPager
    /\ per_page_arg = 2
    /\ max_pages = <<>>
    /\ max_items = <<>>
    /\ LaterPartsAtRest

SpecClient == ClientInit /\ [][NextClient]_vars

\* One client answered by rate limits without usable retry headers, with the
\* other parts at rest.
SpecBackoff == ClientInit /\ [][NextBackoff]_vars

\* One call of iter_user_photos driven by its consumer, with the other parts at
\* rest.
PagerInit ==
    /\ InitPager
    /\ InitDash
    /\ env_access_key
    /\ InitStore
    /\ InitClient
    /\ cfg_min_interval = 0
    /\ cfg_max_sleep = DefaultMaxSleep
    /\ LaterPartsAtRest

SpecPager == PagerInit /\ [][NextPager]_vars

\* The requests of one client in time, with the other parts at rest.
PaceInit ==
    /\ LaterPartsAtRest
    /\ EarlierPartsAtRest
    /\ InitClient
    /\ cfg_max_sleep = DefaultMaxSleep

SpecPace == PaceInit /\ [][NextPace]_vars

\* One invocation of collect_snapshot with a client and a store of its own, with
\* the other parts at rest.
CollectInit ==
    /\ InitCollect
    /\ InitPace
    /\ InitView
    /\ InitSchema
    /\ InitCallback
    /\ EarlierPartsAtRest
    /\ InitClient
    /\ cfg_max_sleep = DefaultMaxSleep

SpecCollect == CollectInit /\ [][NextCollect]_vars

\* One invocation of collect_snapshot against a server whose listing agrees
\* with the account's total_photos, with the other parts at rest.
ConsistentRunInit ==
    /\ InitConsistentRun
    /\ InitPace
    /\ InitView
    /\ InitSchema
    /\ InitCallback
    /\ EarlierPartsAtRest
    /\ InitClient
    /\ cfg_min_interval = 0
    /\ cfg_max_sleep = DefaultMaxSleep

SpecConsistentRun == ConsistentRunInit /\ [][NextConsistentRun]_vars

\* Committed runs and readers of the latest-vs-previous query, with the other
\* parts at rest.
ViewInit ==
    /\ InitView
    /\ InitPace
    /\ CollectAtRest
    /\ InitSchema
    /\ InitCallback
    /\ EarlierPartsAtRest
    /\ InitClient
    /\ cfg_min_interval = 0
    /\ cfg_max_sleep = DefaultMaxSleep

SpecView == ViewInit /\ [][NextView]_vars

\* Calls of init_db among concurrent collect_snapshot transactions, on a store
\* file that is new, complete or in between, with the other parts at rest.
SchemaInit ==
    /\ db_schema \in Schemas
    /\ init_db_calls = 0
    /\ init_db_raised = FALSE
    /\ InitStore
    /\ InitDash
    /\ env_access_key
    /\ InitClient
    /\ cfg_min_interval = 0
    /\ cfg_max_sleep = DefaultMaxSleep
    /\ InitPager
    /\ per_page_arg = 2
    /\ max_pages = <<>>
    /\ max_items = <<>>
    /\ InitPace
    /\ CollectAtRest
    /\ InitView
    /\ InitCallback

SpecSchema == SchemaInit /\ [][NextSchema]_vars

\* Invocations of the progress callback on two request threads beside the
\* worker thread, with the other parts at rest.
CallbackInit ==
    /\ InitCallback
    /\ InitPace
    /\ CollectAtRest
    /\ InitView
    /\ InitSchema
    /\ EarlierPartsAtRest
    /\ InitClient
    /\ cfg_min_interval = 0
    /\ cfg_max_sleep = DefaultMaxSleep

SpecCallback == CallbackInit /\ [][NextCallback]_vars

=============================================================================
